---- MODULE Spec2Model ----
(***************************************************************************)
(* Model of mizzy/least: the Terraform configuration walker and the block  *)
(* reader (internal/provider/terraform), the policy differ and loader      *)
(* (internal/checker), the action resolver and schema store                *)
(* (internal/mapping, internal/schema), the policy generator               *)
(* (internal/policy) and the exit code of the check command (cmd/least).   *)
(***************************************************************************)
EXTENDS Integers, Sequences, FiniteSets, TLC

(* ---------------------------------------------------------------------- *)
(* Bounds of the declaration trees the walker is run on.                   *)
(* ---------------------------------------------------------------------- *)
NDirs == 3
NFiles == 2
MaxActions == 2
MaxLen == 3
MaxRuns == 2

Dirs == 1..NDirs
RootDir == 1
NoDir == 0
FileIdx == 1..NFiles
MaxDepth == NDirs + 2

VARIABLES
  rootPath,    \* the path handed to Parse
  absOK,       \* filepath.Abs can determine the working directory
  moduleCalls, \* per directory: the module blocks LoadModule reports (name -> source)
  badFiles,    \* .tf files that parseFile fails on
  loadErr,     \* directories for which tfconfig.LoadModule reports errors
  unreadable,  \* directories os.ReadDir fails on
  dupFiles,    \* .tf files that hold two resource blocks of the same kind and name
  stack,       \* activation records of parseWithModules, innermost last
  visited,     \* the visited map of Parse
  resources,   \* result.Resources
  policies,    \* result.Policies
  errors,      \* result.Errors
  outcome,     \* "running", or what Parse returned: "ok" (result, nil) / "error" (nil, err)
  expandCount, \* history: how often each absolute directory passed the visited check
  reentries,   \* history: how often a call returned at the visited check
  handled,     \* history: the module blocks <<directory, name>> the loop has taken up
  enteredAs,   \* history: per directory the path that passed the visited check
  existing,    \* checker: the existing (granted) policy handed to Check
  required,    \* checker: the required policy handed to Check
  result,      \* checker: what Check returned, NoResult before the call
  compliant,   \* checker: what IsCompliant returned and the exit code, NoVerdict before
  argPattern,  \* matcher: the pattern handed to matchAction
  argAction,   \* matcher: the action handed to matchAction
  matched,     \* matcher: what matchAction returned, NoMatch before the call
  origin,      \* loader: where the existing policy comes from, "json" or "terraform"
  doc,         \* loader: the policy document as written
  granted,     \* loader: GetAllActions of the loaded policy, NoGrant before the load
  resolver,    \* resolver: its configuration (useSchema, the store's cacheDir)
  schemas,     \* resolver: Store.schemas, type name -> schema, of this run
  disk,        \* resolver: the files of the cache directory, file name -> schema
  run,         \* resolver: the number of the current run (process)
  lastCall,    \* resolver: history, what the last GetActionsForResourceType did
  seen,        \* resolver: history, per kind what its last resolution of this run returned
  fetchHist,   \* resolver: history, the canonical types fetched, filed and saved
  generated,   \* generator: what Generate returned for the resources last resolved
  genOptions,  \* generator: the GeneratorOptions of the Generator
  argRes,      \* generator: the resource handed to buildARNsForResource
  arns,        \* generator: what buildARNsForResource returned, NoARNs before the call
  argResources, \* generator: the resources handed to Generate by the generate command
  argBlocks,   \* parser: the resource and data blocks of the file handed to parseFile
  parsed       \* parser: the ParseResult after parseFile's loop, NoParse before the call

fsVars == <<rootPath, absOK, moduleCalls, badFiles, loadErr, unreadable, dupFiles>>
walkVars == <<stack, visited, resources, policies, errors, outcome, expandCount, reentries,
              handled, enteredAs>>
chkVars == <<existing, required, result, compliant>>
matchVars == <<argPattern, argAction, matched>>
\* what the walker leaves alone, and what the differ leaves alone
loadVars == <<origin, doc, granted>>
rslVars == <<resolver, schemas, disk, run, lastCall, seen, fetchHist, generated>>
genVars == <<genOptions, argRes, arns, argResources>>
blkVars == <<argBlocks, parsed>>
nonWalkVars == <<chkVars, matchVars, loadVars, rslVars, genVars, blkVars>>
nonChkVars == <<fsVars, walkVars, matchVars, loadVars, rslVars, genVars, blkVars>>
nonMatchVars == <<fsVars, walkVars, chkVars, loadVars, rslVars, genVars, blkVars>>
nonRslVars == <<fsVars, walkVars, chkVars, matchVars, loadVars, genVars, blkVars>>
nonGenVars == <<fsVars, walkVars, chkVars, matchVars, loadVars, rslVars, blkVars>>
nonBlkVars == <<fsVars, walkVars, chkVars, matchVars, loadVars, rslVars, genVars>>
vars == <<rootPath, absOK, moduleCalls, badFiles, loadErr, unreadable, dupFiles,
          stack, visited, resources, policies, errors, outcome, expandCount, reentries,
          handled, enteredAs, existing, required, result, compliant,
          argPattern, argAction, matched, origin, doc, granted,
          resolver, schemas, disk, run, lastCall, seen, fetchHist, generated,
          genOptions, argRes, arns, argResources, argBlocks, parsed>>

(* ---------------------------------------------------------------------- *)
(* Paths.  A path names an existing directory, an existing .tf file of a   *)
(* directory, or nothing on disk.                                          *)
(* ---------------------------------------------------------------------- *)
DirPath(d) == [kind |-> "dir", dir |-> d, file |-> 0]
FilePath(d, i) == [kind |-> "file", dir |-> d, file |-> i]
MissingPath == [kind |-> "missing", dir |-> NoDir, file |-> 0]
NoPath == [kind |-> "none", dir |-> NoDir, file |-> 0]

TargetPath(t) == IF t \in Dirs THEN DirPath(t) ELSE MissingPath

\* the path a module source names: a directory, a .tf file of one, or
\* nothing on disk
SourcePath(s) ==
  IF s.to \in Dirs /\ s.file # 0 THEN FilePath(s.to, s.file) ELSE TargetPath(s.to)

\* os.Stat(path) succeeds
StatOK(p) == p.kind \in {"dir", "file"}

(* ---------------------------------------------------------------------- *)
(* Module sources.  kind "rel" is a ./ or ../ source, "abs" an absolute    *)
(* one, "remote" anything else.  `to` is the directory the source (or the  *)
(* manifest entry) points at, NoDir when that path does not exist.  `man`  *)
(* is what .terraform/modules/modules.json of the calling directory holds  *)
(* for a remote source.                                                    *)
(* ---------------------------------------------------------------------- *)
Targets == Dirs \cup {NoDir}
LocalSources ==
  [kind : {"rel", "abs"}, man : {"na"}, to : Targets, file : {0}]
    \cup [kind : {"rel"}, man : {"na"}, to : Dirs, file : FileIdx]
RemoteSources ==
  [kind : {"remote"}, man : {"absent", "broken", "nomatch"}, to : {NoDir}, file : {0}]
    \cup [kind : {"remote"}, man : {"match"}, to : Targets, file : {0}]
Sources == LocalSources \cup RemoteSources

Rel(t) == [kind |-> "rel", man |-> "na", to |-> t, file |-> 0]


(* ---------------------------------------------------------------------- *)
(* The declaration trees Parse is run on.  Every directory has NFiles .tf  *)
(* files and at most one module block of its own, a ./ or ../ reference to *)
(* an existing directory (base; directories are numbered in the order in   *)
(* which a walk can first meet them).  On top of that a tree has at most   *)
(* one further feature:                                                    *)
(*   call         a second module block in one directory, of any source    *)
(*   badfile      a file parseFile fails on while LoadModule accepts the   *)
(*                directory                                                *)
(*   brokenfile   a file both parseFile and LoadModule fail on             *)
(*   loaderr      LoadModule fails though every .tf file parses            *)
(*   unreadable   a directory os.ReadDir fails on                          *)
(*   dupfile      a file with two resource blocks of one kind and name     *)
(*   rootfile     the root path is a .tf file of the root directory        *)
(*   rootbadfile  the root path is a .tf file that does not parse          *)
(*   rootmissing  the root path does not exist                             *)
(*   cwdgone      the root path is relative and the working directory      *)
(*                cannot be determined                                     *)
(* ---------------------------------------------------------------------- *)
NoSrc == Rel(NoDir)
Extras ==
  [type : {"call"}, dir : Dirs, idx : {0}, src : Sources]
    \cup [type : {"badfile", "brokenfile", "dupfile"}, dir : Dirs, idx : FileIdx,
          src : {NoSrc}]
    \cup [type : {"loaderr", "unreadable"}, dir : Dirs, idx : {0}, src : {NoSrc}]
    \cup [type : {"rootfile", "rootbadfile"}, dir : {RootDir}, idx : FileIdx, src : {NoSrc}]
    \cup [type : {"rootmissing", "cwdgone"}, dir : {RootDir}, idx : {0}, src : {NoSrc}]

ExtraSets == {{}} \cup {{x} : x \in Extras}

BaseGraphs == {g \in [Dirs -> Targets] : \A d \in Dirs : g[d] <= d + 1}

RECURSIVE SetToSeq(_)
SetToSeq(S) ==
  IF S = {} THEN <<>>
  ELSE LET x == CHOOSE y \in S : TRUE IN <<x>> \o SetToSeq(S \ {x})

CallsOf(base, ex, d) ==
  (IF base[d] \in Dirs THEN <<Rel(base[d])>> ELSE <<>>)
    \o SetToSeq({e.src : e \in {x \in ex : x.type = "call" /\ x.dir = d}})

RootPathOf(ex) ==
  IF \E e \in ex : e.type = "rootmissing" THEN MissingPath
  ELSE IF \E e \in ex : e.type \in {"rootfile", "rootbadfile"}
    THEN FilePath(RootDir, (CHOOSE e \in ex : e.type \in {"rootfile", "rootbadfile"}).idx)
  ELSE DirPath(RootDir)

(* ---------------------------------------------------------------------- *)
(* Diagnostics appended to result.Errors.                                  *)
(* ---------------------------------------------------------------------- *)
Diag(k, d, r) == [kind |-> k, dir |-> d, ref |-> r]

(* ---------------------------------------------------------------------- *)
(* Activation records of parseWithModules.                                 *)
(* ---------------------------------------------------------------------- *)
NewFrame(p, n) ==
  [path |-> p, via |-> n, pc |-> "enter", dir |-> NoDir, files |-> <<>>, todo |-> {}]

Top == stack[Len(stack)]
Pop == SubSeq(stack, 1, Len(stack) - 1)
SetTop(f) == [stack EXCEPT ![Len(stack)] = f]

NoResult == [Missing |-> <<>>, Excessive |-> <<>>, Matched |-> <<>>, called |-> FALSE]
NoMatch == [called |-> FALSE, value |-> FALSE]
NoVerdict == [called |-> FALSE, value |-> FALSE, exit |-> 0]

\* matchAction is not being called
MatchIdle == argPattern = <<>> /\ argAction = <<>> /\ matched = NoMatch

\* no resolver is in use
NoCall == [kind |-> "", tier |-> "none", fetch |-> "none", actions |-> <<>>, again |-> "none"]
NoFetches == [fetched |-> {}, fetchedRun |-> {}, filedRun |-> {}, saved |-> {}]
\* Generate has not run
NoPolicy == [called |-> FALSE, err |-> FALSE, resources |-> <<>>, Statement |-> <<>>]

ResolveIdle ==
  /\ resolver = [useSchema |-> FALSE, cacheDir |-> ""]
  /\ schemas = <<>> /\ disk = <<>> /\ run = 0
  /\ lastCall = NoCall /\ seen = <<>> /\ fetchHist = NoFetches
  /\ generated = NoPolicy

\* no address is being rendered
NoOptions == [OutputFormat |-> "", AccountRef |-> <<>>, RegionRef |-> <<>>]
NoARNs == [called |-> FALSE, value |-> <<>>]
RenderIdle ==
  genOptions = NoOptions /\ argRes = <<>> /\ arns = NoARNs /\ argResources = <<>>

\* no file's blocks are being read
NoParse == [called |-> FALSE, Resources |-> <<>>, Policies |-> <<>>, Errors |-> <<>>,
            err |-> FALSE]
BlockIdle == argBlocks = <<>> /\ parsed = NoParse

\* no policy is being loaded
NoGrant == [called |-> FALSE, value |-> <<>>]
LoadIdle == origin = "none" /\ doc = <<>> /\ granted = NoGrant

\* Check is not being called
CheckIdle ==
  existing = <<>> /\ required = <<>> /\ result = NoResult /\ compliant = NoVerdict

Init ==
  /\ \E base \in BaseGraphs, ex \in ExtraSets :
       /\ moduleCalls = [d \in Dirs |-> CallsOf(base, ex, d)]
       /\ badFiles = {<<e.dir, e.idx>> :
                        e \in {x \in ex : x.type \in {"badfile", "brokenfile", "rootbadfile"}}}
       /\ loadErr = {e.dir : e \in {x \in ex : x.type \in {"loaderr", "brokenfile"}}}
       /\ unreadable = {e.dir : e \in {x \in ex : x.type = "unreadable"}}
       /\ dupFiles = {<<e.dir, e.idx>> : e \in {x \in ex : x.type = "dupfile"}}
       /\ rootPath = RootPathOf(ex)
       /\ absOK = ~(\E e \in ex : e.type = "cwdgone")
  /\ stack = <<NewFrame(rootPath, 0)>>
  /\ visited = {}
  /\ resources = <<>>
  /\ policies = <<>>
  /\ errors = <<>>
  /\ outcome = "running"
  /\ expandCount = [d \in Dirs |-> 0]
  /\ reentries = [d \in Dirs |-> 0]
  /\ handled = {}
  /\ enteredAs = [d \in Dirs |-> NoPath]
  /\ CheckIdle
  /\ MatchIdle
  /\ LoadIdle
  /\ ResolveIdle
  /\ RenderIdle
  /\ BlockIdle

(* ---------------------------------------------------------------------- *)
(* Pure helpers of the walker.                                             *)
(* ---------------------------------------------------------------------- *)
\* filepath.Abs(dir) fails only when the working directory cannot be
\* determined
AbsOK(p) == absOK

\* visited[absDir]
AlreadyVisitedNever(absDir, vis) == FALSE
AlreadyVisited(absDir, vis) == absDir \in vis

\* visited[absDir] = true
MarkVisitedForgotten(vis, absDir) == vis
MarkVisited(vis, absDir) == vis \cup {absDir}

\* resolveModuleSource returned an error: it is recorded
ResolveFailed(errs, d, n) == Append(errs, Diag("resolving", d, n))

\* resolveModuleSource returned no path and no error: "remote module not
\* found in .terraform/modules" is recorded
RemoteNotFoundSilent(errs, d, n) == errs
RemoteNotFound(errs, d, n) == Append(errs, Diag("remote", d, n))

\* a failed parseFile is recorded and the loop over files goes on
RemainingFilesAbort(files, err) == IF err THEN <<>> ELSE Tail(files)
RemainingFiles(files, err) == Tail(files)

\* `continue` in the loop over module calls: the other calls are still due
Break(todo, n) == {}
Continue(todo, n) == todo \ {n}

\* the files parseWithModules collects: the .tf entries of a directory in
\* ReadDir order, or the single file it was given
ListFiles(p) ==
  IF p.kind = "dir" THEN [i \in FileIdx |-> i] ELSE <<p.file>>

\* what a file declares: one resource block, or two of the same kind and
\* name, and in the first file of a directory one policy document; a block's
\* line is its position in the file
Res(d, f, l) ==
  [Type |-> "aws_s3_bucket", Name |-> IF f = 1 THEN "main" ELSE "logs",
   dir |-> d, file |-> f, line |-> l]
FileResources(d, f) ==
  IF <<d, f>> \in dupFiles THEN <<Res(d, f, 1), Res(d, f, 2)>> ELSE <<Res(d, f, 1)>>
FilePolicies(d, f) == IF f = 1 THEN <<[dir |-> d, file |-> f]>> ELSE <<>>

parseFile(d, f) ==
  IF <<d, f>> \in badFiles
    THEN [err |-> TRUE, res |-> <<>>, pol |-> <<>>]
    ELSE [err |-> FALSE, res |-> FileResources(d, f), pol |-> FilePolicies(d, f)]

findModuleInManifestStrict(s) ==
  IF s.man = "match" THEN [err |-> FALSE, dir |-> SourcePath(s)]
  ELSE [err |-> TRUE, dir |-> NoPath]

findModuleInManifest(s) ==
  IF s.man = "broken" THEN [err |-> TRUE, dir |-> NoPath]
  ELSE IF s.man = "match" THEN [err |-> FALSE, dir |-> SourcePath(s)]
  ELSE [err |-> FALSE, dir |-> NoPath]

resolveModuleSource(basePath, s) ==
  IF s.kind = "rel" THEN
    IF StatOK(SourcePath(s)) THEN [modPath |-> SourcePath(s), err |-> FALSE]
    ELSE [modPath |-> NoPath, err |-> TRUE]
  ELSE IF s.kind = "abs" THEN
    IF StatOK(SourcePath(s)) THEN [modPath |-> SourcePath(s), err |-> FALSE]
    ELSE [modPath |-> NoPath, err |-> TRUE]
  ELSE IF s.man = "absent" THEN [modPath |-> NoPath, err |-> FALSE]
  ELSE LET m == findModuleInManifest(s) IN
    IF m.err THEN [modPath |-> NoPath, err |-> TRUE]
    ELSE IF m.dir # NoPath /\ StatOK(m.dir) THEN [modPath |-> m.dir, err |-> FALSE]
    ELSE [modPath |-> NoPath, err |-> FALSE]

(* ---------------------------------------------------------------------- *)
(* The callee on top of the stack returns err.  The root call returns to   *)
(* Parse; a module call returns into the loop over module.ModuleCalls,     *)
(* which records the error and goes on.                                    *)
(* ---------------------------------------------------------------------- *)
ReturnPropagate(err, errs) ==
  IF err
    THEN /\ stack' = <<>>
         /\ outcome' = "error"
         /\ errors' = errs
    ELSE /\ stack' = Pop
         /\ outcome' = (IF Len(stack) = 1 THEN "ok" ELSE outcome)
         /\ errors' = errs

Return(err, errs) ==
  /\ stack' = Pop
  /\ IF Len(stack) = 1
       THEN /\ outcome' = (IF err THEN "error" ELSE "ok")
            /\ errors' = errs
       ELSE /\ outcome' = outcome
            /\ errors' = IF err
                 THEN Append(errs, Diag("module", stack[Len(stack) - 1].dir, Top.via))
                 ELSE errs

Running == outcome = "running" /\ stack # <<>>

\* parseWithModules up to the visited check
Enter ==
  /\ Running /\ Top.pc = "enter"
  /\ UNCHANGED fsVars
  /\ UNCHANGED nonWalkVars
  /\ LET p == Top.path IN
       IF ~StatOK(p) \/ (p.kind = "dir" /\ p.dir \in unreadable) \/ ~AbsOK(p)
         THEN /\ Return(TRUE, errors)
              /\ UNCHANGED <<visited, resources, policies, expandCount, reentries, handled, enteredAs>>
       ELSE IF AlreadyVisited(p.dir, visited)
         THEN /\ Return(FALSE, errors)
              /\ reentries' = [reentries EXCEPT ![p.dir] = @ + 1]
              /\ UNCHANGED <<visited, resources, policies, expandCount, handled, enteredAs>>
       ELSE /\ visited' = MarkVisited(visited, p.dir)
            /\ expandCount' = [expandCount EXCEPT ![p.dir] = @ + 1]
            /\ stack' = SetTop([Top EXCEPT !.pc = "files", !.dir = p.dir,
                                           !.files = ListFiles(p)])
            /\ enteredAs' = [enteredAs EXCEPT ![p.dir] = p]
            /\ UNCHANGED <<resources, policies, errors, outcome, reentries, handled>>

\* one iteration of the loop over files
ParseFile ==
  /\ Running /\ Top.pc = "files" /\ Top.files # <<>>
  /\ UNCHANGED fsVars
  /\ UNCHANGED nonWalkVars
  /\ LET r == parseFile(Top.dir, Head(Top.files)) IN
       /\ stack' = SetTop([Top EXCEPT !.files = RemainingFiles(@, r.err)])
       /\ resources' = resources \o r.res
       /\ policies' = policies \o r.pol
       /\ errors' = IF r.err
            THEN Append(errors, Diag("parsing", Top.dir, Head(Top.files)))
            ELSE errors
       /\ UNCHANGED <<visited, outcome, expandCount, reentries, handled, enteredAs>>

\* after the files: tfconfig.LoadModule for a directory
LoadModule ==
  /\ Running /\ Top.pc = "files" /\ Top.files = <<>>
  /\ UNCHANGED fsVars
  /\ UNCHANGED nonWalkVars
  /\ UNCHANGED <<visited, resources, policies, expandCount, reentries, handled, enteredAs>>
  /\ IF Top.path.kind # "dir"
       THEN Return(FALSE, errors)
     ELSE IF Top.dir \in loadErr
       THEN Return(FALSE, Append(errors, Diag("loading", Top.dir, 0)))
     ELSE /\ stack' = SetTop([Top EXCEPT !.pc = "calls",
                                         !.todo = DOMAIN moduleCalls[Top.dir]])
          /\ UNCHANGED <<errors, outcome>>

\* one iteration of the loop over module.ModuleCalls (a Go map: any order)
ExpandCall ==
  /\ Running /\ Top.pc = "calls" /\ Top.todo # {}
  /\ UNCHANGED fsVars
  /\ UNCHANGED nonWalkVars
  /\ UNCHANGED <<visited, resources, policies, outcome, expandCount, reentries, enteredAs>>
  /\ \E n \in Top.todo :
       LET r == resolveModuleSource(Top.dir, moduleCalls[Top.dir][n])
           skip == [Top EXCEPT !.todo = Continue(@, n)]
           called == [Top EXCEPT !.todo = @ \ {n}]
       IN  /\ handled' = handled \cup {<<Top.dir, n>>}
           /\ IF r.err
                THEN /\ errors' = ResolveFailed(errors, Top.dir, n)
                     /\ stack' = SetTop(skip)
              ELSE IF r.modPath = NoPath
                THEN /\ errors' = RemoteNotFound(errors, Top.dir, n)
                     /\ stack' = SetTop(skip)
              ELSE /\ Len(stack) < MaxDepth
                   /\ stack' = Append(SetTop(called), NewFrame(r.modPath, n))
                   /\ UNCHANGED errors

\* the loop over module calls is exhausted: return nil
Finish ==
  /\ Running /\ Top.pc = "calls" /\ Top.todo = {}
  /\ UNCHANGED fsVars
  /\ UNCHANGED nonWalkVars
  /\ UNCHANGED <<visited, resources, policies, expandCount, reentries, handled, enteredAs>>
  /\ Return(FALSE, errors)

Next == Enter \/ ParseFile \/ LoadModule \/ ExpandCall \/ Finish

Spec == Init /\ [][Next]_vars
FairSpec == Spec /\ WF_vars(Next)

Done == outcome # "running"
TypeOK == outcome \in {"running", "ok", "error", "idle"}

(* ---------------------------------------------------------------------- *)
(* The declaration tree as it is on disk, for stating the claims.          *)
(* ---------------------------------------------------------------------- *)
Range(q) == {q[i] : i \in DOMAIN q}
Count(q, x) == Cardinality({i \in DOMAIN q : q[i] = x})
NoDup(q) == \A i, j \in DOMAIN q : q[i] = q[j] => i = j

\* the directory a module source leads to, NoDir when it leads nowhere
RefTarget(s) ==
  IF s.kind \in {"rel", "abs"} THEN s.to
  ELSE IF s.man = "match" THEN s.to
  ELSE NoDir

Calls(d) == DOMAIN moduleCalls[d]

\* directory d has a module block that resolves to directory e or to a file
\* of it
Edge(d, e) == \E n \in Calls(d) : RefTarget(moduleCalls[d][n]) = e

RECURSIVE ReachVia(_, _, _)
ReachVia(E(_, _), S, k) ==
  IF k = 0 THEN S
  ELSE ReachVia(E, S \cup {e \in Dirs : \E d \in S : E(d, e)}, k - 1)

\* directories on a cycle of module references
OnCycle(d) == d \in ReachVia(Edge, {e \in Dirs : Edge(d, e)}, NDirs)

RootIsDir == rootPath.kind = "dir"
RootIsFile == rootPath.kind = "file"

\* the walk went through directory d as a directory and listed its module
\* blocks
Listed(d) ==
  /\ d \in visited
  /\ enteredAs[d].kind = "dir"
  /\ d \notin loadErr

\* the resource a file declares, when the file can be parsed
Declared(d, f) == Res(d, f, 1)
GoodFiles(d) == {f \in FileIdx : <<d, f>> \notin badFiles}

DiagsAbout(d, n) == {i \in DOMAIN errors : errors[i].dir = d /\ errors[i].ref = n
                                            /\ errors[i].kind # "parsing"}

(* ---------------------------------------------------------------------- *)
(* Claims about the configuration graph walker.                            *)
(* ---------------------------------------------------------------------- *)

\* C1: for any finite module-reference graph, cycles and self-references
\* included, Parse terminates (it returns a result or an error).
C1_Terminates == <>(outcome # "running")

C1_Witness ==
  /\ outcome = "ok"
  /\ \E d \in Dirs : OnCycle(d) /\ reentries[d] > 0 /\ expandCount[d] = 1

\* C2: during one Parse each absolute directory is expanded at most once,
\* however many module calls reference it; a call that finds its directory
\* in the visited set adds no resource, no policy and no diagnostic, so the
\* resources and policies of a directory are in the result once.
C2_ExpandedOnce ==
  /\ [](/\ \A d \in Dirs : expandCount[d] <= 1
        /\ NoDup(resources)
        /\ NoDup(policies))
  /\ [][(\E d \in Dirs : reentries'[d] > reentries[d])
          => (resources' = resources /\ policies' = policies /\ errors' = errors)]_vars

C2_Witness ==
  /\ outcome = "ok"
  /\ \E c, d \in Dirs :
       /\ \E n1, n2 \in Calls(c) :
            /\ n1 # n2
            /\ RefTarget(moduleCalls[c][n1]) = d
            /\ RefTarget(moduleCalls[c][n2]) = d
       /\ Listed(c)
       /\ reentries[d] > 0
       /\ \A f \in FileIdx : Count(resources, Declared(d, f)) = 1

\* the files of directory d the walk hands to parseFile
FilesParsed(d) ==
  IF enteredAs[d].kind = "file" THEN {enteredAs[d].file} ELSE FileIdx

\* a module block whose directory was attempted: it is in the visited set,
\* or it could not be read
Attempted(d, n) ==
  /\ <<d, n>> \in handled
  /\ LET t == RefTarget(moduleCalls[d][n])
     IN  t \in Dirs => (t \in visited \/ t \in unreadable)

\* the directories reachable from the root by module blocks that resolve
Reachable == ReachVia(Edge, {RootDir}, NDirs)

\* C3 as claimed: Parse, given a root file or directory, returns every
\* resource declared in every directory reachable from the root by following
\* resolvable module references.  (For a root file only the file itself is
\* asked for here; unreadable directories and unparseable files are not
\* asked for.)
C3_Original ==
  outcome = "ok" =>
    IF RootIsDir
      THEN \A d \in Reachable : d \notin unreadable =>
             \A f \in GoodFiles(d) : Declared(d, f) \in Range(resources)
      ELSE \A f \in GoodFiles(RootDir) \cap {rootPath.file} :
             Declared(RootDir, f) \in Range(resources)

\* a failure on the root path itself
RootMissingOrUnreadable ==
  \/ ~StatOK(rootPath)
  \/ (RootIsDir /\ RootDir \in unreadable)

\* every failure the walk met below the root has a diagnostic
FailuresRecorded ==
  /\ \A d \in visited : \A f \in FilesParsed(d) \ GoodFiles(d) :
       Diag("parsing", d, f) \in Range(errors)
  /\ \A d \in visited : (enteredAs[d].kind = "dir" /\ d \in loadErr) =>
       Diag("loading", d, 0) \in Range(errors)
  /\ \A d \in Dirs : Listed(d) => \A n \in Calls(d) :
       LET t == RefTarget(moduleCalls[d][n])
       IN  /\ t = NoDir => DiagsAbout(d, n) # {}
           /\ (t \in Dirs /\ t \in unreadable) => Diag("module", d, n) \in Range(errors)

\* C4 as claimed: Parse returns a hard error only when the root path does not
\* exist or is unreadable; every failure met below the root is appended to
\* Errors and Parse still returns the partial result.
C4_Original ==
  /\ outcome = "error" => RootMissingOrUnreadable
  /\ (outcome # "running" /\ ~RootMissingOrUnreadable) =>
       (outcome = "ok" /\ FailuresRecorded)

\* C4 amended: Parse returns a hard error (and nothing else) only when the
\* root path does not exist, is unreadable, or cannot be made absolute (a
\* relative root with no working directory); every failure met below the root
\* (file parse error, unresolvable module reference, module directory that
\* cannot be accessed, failing module introspection) is appended to Errors and
\* Parse still returns the partial result.
C4_HardErrorOnlyAtRoot ==
  /\ outcome = "error" =>
       /\ RootMissingOrUnreadable \/ ~absOK
       /\ resources = <<>> /\ policies = <<>> /\ errors = <<>>
  /\ (outcome # "running" /\ ~RootMissingOrUnreadable /\ absOK) =>
       (outcome = "ok" /\ FailuresRecorded)

C4_Witness ==
  /\ outcome = "ok"
  /\ resources # <<>>
  /\ \E d \in Dirs : \E n \in Calls(d) :
       /\ RefTarget(moduleCalls[d][n]) \in unreadable
       /\ Diag("module", d, n) \in Range(errors)

\* a directory the walk went through as a directory, one of whose files
\* parseFile failed on
HasBadFile(d) == d \in visited /\ enteredAs[d].kind = "dir" /\ GoodFiles(d) # FileIdx

FileFailureContained(d) ==
  /\ \A f \in FileIdx \ GoodFiles(d) : Count(errors, Diag("parsing", d, f)) = 1
  /\ \A f \in GoodFiles(d) : Declared(d, f) \in Range(resources)

\* C5 as claimed: when one file of a directory fails to parse, a diagnostic
\* for that file is recorded, the other files of the directory are still
\* parsed, and the module references of that directory are still expanded.
C5_Original ==
  outcome = "ok" =>
    \A d \in Dirs : HasBadFile(d) =>
      /\ FileFailureContained(d)
      /\ \A n \in Calls(d) : Attempted(d, n)

\* C5 amended: when one file of a directory fails to parse, a diagnostic for
\* that file is recorded and the other files of the directory are still
\* parsed; the module references of the directory are still expanded if
\* LoadModule reports no error for the directory, and if it reports errors a
\* further diagnostic is recorded and none of them is taken up.
C5_ParseFailureContained ==
  outcome = "ok" =>
    \A d \in Dirs : HasBadFile(d) =>
      /\ FileFailureContained(d)
      /\ IF d \in loadErr
           THEN /\ Count(errors, Diag("loading", d, 0)) = 1
                /\ \A n \in Calls(d) : <<d, n>> \notin handled /\ DiagsAbout(d, n) = {}
           ELSE \A n \in Calls(d) : Attempted(d, n)

C5_Witness ==
  /\ outcome = "ok"
  /\ \E d \in Dirs :
       /\ HasBadFile(d)
       /\ GoodFiles(d) # {}
       /\ d \notin loadErr
       /\ \E n \in Calls(d) :
            /\ RefTarget(moduleCalls[d][n]) \in visited \ {d}
            /\ <<d, n>> \in handled

IsLocal(s) == s.kind \in {"rel", "abs"}

\* C6: when a module reference with a relative or absolute source does not
\* exist on disk, exactly one diagnostic (the failed resolution) is recorded
\* for it, nothing is expanded for it, and the other module references of
\* the same directory are still expanded.
C6_MissingLocalModule ==
  outcome = "ok" =>
    \A d \in Dirs : Listed(d) => \A n \in Calls(d) :
      (IsLocal(moduleCalls[d][n]) /\ moduleCalls[d][n].to = NoDir) =>
        /\ Cardinality(DiagsAbout(d, n)) = 1
        /\ \A i \in DiagsAbout(d, n) : errors[i].kind = "resolving"
        /\ \A m \in Calls(d) \ {n} : Attempted(d, m)

C6_Witness ==
  /\ outcome = "ok"
  /\ \E d \in Dirs : Listed(d) /\ \E n, m \in Calls(d) :
       /\ IsLocal(moduleCalls[d][n]) /\ moduleCalls[d][n].to = NoDir
       /\ DiagsAbout(d, n) # {}
       /\ m # n
       /\ RefTarget(moduleCalls[d][m]) \in visited \ {d}
       /\ expandCount[RefTarget(moduleCalls[d][m])] = 1

IsRemote(s) == s.kind = "remote"

\* C7 as claimed: for a module reference that is neither relative nor
\* absolute, an absent manifest or a manifest without a matching entry
\* records no diagnostic, and a matching entry whose path does not exist
\* records one.
C7_Original ==
  outcome = "ok" =>
    \A d \in Dirs : Listed(d) => \A n \in Calls(d) :
      IsRemote(moduleCalls[d][n]) =>
        /\ moduleCalls[d][n].man \in {"absent", "nomatch"} => DiagsAbout(d, n) = {}
        /\ (moduleCalls[d][n].man = "match" /\ moduleCalls[d][n].to = NoDir)
             => DiagsAbout(d, n) # {}

\* C7 amended: for a module reference that is neither relative nor absolute,
\* an absent manifest, a manifest without a matching entry and a matching
\* entry whose path does not exist all record the same single diagnostic
\* ("remote module not found in .terraform/modules") and expand nothing; a
\* manifest that cannot be read or decoded records a failed resolution.
C7_RemoteModuleDiagnostic ==
  outcome = "ok" =>
    \A d \in Dirs : Listed(d) => \A n \in Calls(d) :
      (IsRemote(moduleCalls[d][n]) /\ RefTarget(moduleCalls[d][n]) = NoDir) =>
        /\ Cardinality(DiagsAbout(d, n)) = 1
        /\ \A i \in DiagsAbout(d, n) :
             errors[i].kind = IF moduleCalls[d][n].man = "broken"
                                THEN "resolving" ELSE "remote"

C7_Witness ==
  /\ outcome = "ok"
  /\ \E d \in Dirs : Listed(d) /\ \E n \in Calls(d) :
       /\ IsRemote(moduleCalls[d][n])
       /\ moduleCalls[d][n].man = "nomatch"
       /\ Diag("remote", d, n) \in Range(errors)

\* C8: when a module reference is a remote source that has not been
\* materialized (no module manifest), Parse still succeeds, returns the
\* resources declared in the calling directory, and has at least one entry in
\* Errors for that reference.
C8_RemoteNotMaterialized ==
  outcome # "running" =>
    \A d \in Dirs : Listed(d) => \A n \in Calls(d) :
      (IsRemote(moduleCalls[d][n]) /\ moduleCalls[d][n].man = "absent") =>
        /\ outcome = "ok"
        /\ \A f \in GoodFiles(d) : Declared(d, f) \in Range(resources)
        /\ DiagsAbout(d, n) # {}

C8_Witness ==
  /\ outcome = "ok"
  /\ \E n \in Calls(RootDir) :
       /\ IsRemote(moduleCalls[RootDir][n]) /\ moduleCalls[RootDir][n].man = "absent"
       /\ Len(errors) = 1
       /\ \A f \in FileIdx : Declared(RootDir, f) \in Range(resources)

(* ---------------------------------------------------------------------- *)
(* The policy differ (internal/checker/checker.go).                        *)
(*                                                                         *)
(* An action is a string, modelled as a sequence of characters.  The       *)
(* characters used stand for the fragments of the action names of the      *)
(* repository's tests: "s" for "s3:", "e" for "ec2:", "G" for "Get",       *)
(* "P" for "Put", "O" for "Object", "R" for "RunInstances".                *)
(* ---------------------------------------------------------------------- *)
ActionUniverse ==
  { <<"*">>,                \* "*"
    <<"s", "*">>,           \* "s3:*"
    <<"s", "G", "*">>,      \* "s3:Get*"
    <<"s", "G", "O">>,      \* "s3:GetObject"
    <<"s", "P", "O">>,      \* "s3:PutObject"
    <<"s", "*", "O">>,      \* "s3:*Object"
    <<"e", "*">>,           \* "ec2:*"
    <<"e", "R">> }          \* "ec2:RunInstances"

\* byte order of the characters
Code(c) ==
  CASE c = "*" -> 42
    [] c = "G" -> 71
    [] c = "O" -> 79
    [] c = "P" -> 80
    [] c = "R" -> 82
    [] c = "V" -> 86
    [] c = "e" -> 101
    [] c = "s" -> 115

\* a < b as Go compares strings
RECURSIVE LexLess(_, _)
LexLess(a, b) ==
  IF b = <<>> THEN FALSE
  ELSE IF a = <<>> THEN TRUE
  ELSE IF Code(Head(a)) # Code(Head(b)) THEN Code(Head(a)) < Code(Head(b))
  ELSE LexLess(Tail(a), Tail(b))

RemoveAt(q, i) == SubSeq(q, 1, i - 1) \o SubSeq(q, i + 1, Len(q))

\* sort.Strings
RECURSIVE SortStrings(_)
SortStrings(q) ==
  IF q = <<>> THEN <<>>
  ELSE LET m == CHOOSE i \in DOMAIN q : \A j \in DOMAIN q : ~LexLess(q[j], q[i])
       IN  <<q[m]>> \o SortStrings(RemoveAt(q, m))

\* strings.HasSuffix(x, "*"), strings.TrimSuffix(x, "*"), strings.HasPrefix
HasStarSuffix(x) == x # <<>> /\ x[Len(x)] = "*"
TrimStarSuffix(x) == IF HasStarSuffix(x) THEN SubSeq(x, 1, Len(x) - 1) ELSE x
HasPrefix(x, pre) == Len(pre) <= Len(x) /\ SubSeq(x, 1, Len(pre)) = pre

matchAction(pattern, action) ==
  IF pattern = action THEN TRUE
  ELSE IF HasStarSuffix(pattern) THEN HasPrefix(action, TrimStarSuffix(pattern))
  ELSE IF HasStarSuffix(action) THEN HasPrefix(pattern, TrimStarSuffix(action))
  ELSE FALSE

matchesAnySwapped(action, actions) ==
  \E i \in DOMAIN actions : matchAction(action, actions[i])

matchesAny(action, actions) ==
  \E i \in DOMAIN actions : matchAction(actions[i], action)

isMatchedByRequiredVacuous(ex, req) ==
  \A i \in DOMAIN req : matchAction(req[i], ex)

isMatchedByRequired(ex, req) ==
  \E i \in DOMAIN req : matchAction(req[i], ex)

\* the actions of the "Allow" statements, in the order of the document
RECURSIVE AllowActions(_)
AllowActions(p) ==
  IF p = <<>> THEN <<>>
  ELSE (IF Head(p).Effect = "Allow" THEN Head(p).Action ELSE <<>>) \o AllowActions(Tail(p))

\* IAMPolicy.GetAllActions: the actions of the "Allow" statements, without
\* repetition, sorted
GetAllActionsRepeating(p) == SortStrings(AllowActions(p))

GetAllActions(p) ==
  LET actionSet == UNION {Range(p[i].Action) : i \in {j \in DOMAIN p : p[j].Effect = "Allow"}}
  IN  SortStrings(SetToSeq(actionSet))

Check(ex, req) ==
  LET existingActions == GetAllActions(ex)
      requiredActions == GetAllActions(req)
      IsMatched(a) == matchesAny(a, existingActions)
      IsMissing(a) == ~matchesAny(a, existingActions)
      IsExcessive(a) == ~matchesAny(a, requiredActions)
                          /\ ~isMatchedByRequired(a, requiredActions)
  IN  [Missing |-> SortStrings(SelectSeq(requiredActions, IsMissing)),
       Excessive |-> SortStrings(SelectSeq(existingActions, IsExcessive)),
       Matched |-> SortStrings(SelectSeq(requiredActions, IsMatched)),
       called |-> TRUE]

(* ---------------------------------------------------------------------- *)
(* The policies Check is called with: no statement, one Allow statement of *)
(* at most MaxActions actions, an Allow statement of at most one action    *)
(* followed by a Deny statement of one action, or two Allow statements     *)
(* that repeat actions within and across them.                             *)
(* ---------------------------------------------------------------------- *)
ActionSets == {S \in SUBSET ActionUniverse : Cardinality(S) <= MaxActions}
Stmt(e, S) == [Effect |-> e, Action |-> SetToSeq(S)]
Policies ==
  {<<>>} \cup {<<Stmt("Allow", S)>> : S \in ActionSets}
    \cup {<<Stmt("Allow", S), Stmt("Deny", {a})>> :
            S \in {T \in ActionSets : Cardinality(T) <= 1}, a \in ActionUniverse}
    \cup {<<[Effect |-> "Allow", Action |-> <<a, b, a>>],
             [Effect |-> "Allow", Action |-> <<b>>]>> : a, b \in ActionUniverse}

\* Parse is not being called
WalkIdle ==
  /\ rootPath = MissingPath
  /\ absOK = TRUE
  /\ moduleCalls = [d \in Dirs |-> <<>>]
  /\ badFiles = {}
  /\ loadErr = {}
  /\ unreadable = {}
  /\ dupFiles = {}
  /\ stack = <<>>
  /\ visited = {}
  /\ resources = <<>>
  /\ policies = <<>>
  /\ errors = <<>>
  /\ outcome = "idle"
  /\ expandCount = [d \in Dirs |-> 0]
  /\ reentries = [d \in Dirs |-> 0]
  /\ handled = {}
  /\ enteredAs = [d \in Dirs |-> NoPath]

CheckInit ==
  /\ existing \in Policies
  /\ required \in Policies
  /\ result = NoResult
  /\ compliant = NoVerdict
  /\ WalkIdle
  /\ MatchIdle
  /\ LoadIdle
  /\ ResolveIdle
  /\ RenderIdle
  /\ BlockIdle

\* a call of Check(existing, required)
DoCheck ==
  /\ ~result.called
  /\ result' = Check(existing, required)
  /\ UNCHANGED <<existing, required, compliant>>
  /\ UNCHANGED nonChkVars

\* Result.IsCompliant
IsCompliantIgnoringExcessive(r) == Len(r.Missing) = 0

IsCompliant(r) == Len(r.Missing) = 0 /\ Len(r.Excessive) = 0

HasMissing(r) == Len(r.Missing) > 0

HasExcessive(r) == Len(r.Excessive) > 0

ExitCodeExcessiveFirst(r) ==
  IF IsCompliant(r) THEN 0
  ELSE IF HasExcessive(r) THEN 2
  ELSE IF HasMissing(r) THEN 1 ELSE 0

\* the status runCheck ends the process with, for the result of Check
ExitCode(r) ==
  IF IsCompliant(r) THEN 0
  ELSE LET afterMissing == IF HasMissing(r) THEN 1 ELSE 0
       IN IF HasExcessive(r) /\ afterMissing = 0 THEN 2 ELSE afterMissing

\* the caller of Check, runCheck, asks result.IsCompliant() and chooses the
\* exit code
DoIsCompliant ==
  /\ result.called
  /\ ~compliant.called
  /\ compliant' = [called |-> TRUE, value |-> IsCompliant(result),
                   exit |-> ExitCode(result)]
  /\ UNCHANGED <<existing, required, result>>
  /\ UNCHANGED nonChkVars

CheckNext == DoCheck \/ DoIsCompliant

CheckSpec == CheckInit /\ [][CheckNext]_vars

\* the actions a policy allows
Allowed(p) ==
  UNION {Range(p[i].Action) : i \in {j \in DOMAIN p : p[j].Effect = "Allow"}}

C10_ExcessiveBothDirections ==
  result.called =>
    \A g \in Allowed(existing) :
      g \in Range(result.Excessive)
        <=> ~(\E r \in Allowed(required) : matchAction(g, r) \/ matchAction(r, g))

(* ---------------------------------------------------------------------- *)
(* matchAction on its own, for any two strings of at most MaxLen           *)
(* characters over an alphabet with the wildcard character.                *)
(* ---------------------------------------------------------------------- *)
Alphabet == {"*", "s", "G"}
Strings == UNION {[1..n -> Alphabet] : n \in 0..MaxLen}

MatchInit ==
  /\ argPattern \in Strings
  /\ argAction \in Strings
  /\ matched = NoMatch
  /\ WalkIdle
  /\ CheckIdle
  /\ LoadIdle
  /\ ResolveIdle
  /\ RenderIdle
  /\ BlockIdle

\* a call of matchAction(argPattern, argAction)
DoMatch ==
  /\ ~matched.called
  /\ matched' = [called |-> TRUE, value |-> matchAction(argPattern, argAction)]
  /\ UNCHANGED <<argPattern, argAction>>
  /\ UNCHANGED nonMatchVars

MatchNext == DoMatch

MatchSpec == MatchInit /\ [][MatchNext]_vars

\* C11: matchAction(P, A) is true exactly when P equals A, or P ends in '*'
\* and A starts with P without its final '*', or A ends in '*' and P starts
\* with A without its final '*'; in every other case it is false.
C11_MatchRule ==
  matched.called =>
    (matched.value <=>
       \/ argPattern = argAction
       \/ HasStarSuffix(argPattern) /\ HasPrefix(argAction, TrimStarSuffix(argPattern))
       \/ HasStarSuffix(argAction) /\ HasPrefix(argPattern, TrimStarSuffix(argAction)))

\* C12: a granted wildcard pattern that covers required actions is never
\* reported excessive: for any granted action g and required action r such
\* that g, read as a pattern, matches r, g is not in Excessive; and when every
\* required action is covered by such a granted pattern, Missing is empty.
C12_CoveringNotExcessive ==
  result.called =>
    /\ \A g \in Allowed(existing) : \A r \in Allowed(required) :
         matchAction(g, r) => g \notin Range(result.Excessive)
    /\ (\A r \in Allowed(required) : \E g \in Allowed(existing) : matchAction(g, r))
         => result.Missing = <<>>

\* C13: IsCompliant holds if and only if Missing and Excessive are both
\* empty, whatever Matched contains; and Check of two policies with the same
\* set of allowed actions is compliant.
C13_Compliance ==
  compliant.called =>
    /\ compliant.value <=> (result.Missing = <<>> /\ result.Excessive = <<>>)
    /\ Allowed(existing) = Allowed(required) => compliant.value

C13_Witness ==
  /\ compliant.called
  /\ compliant.value
  /\ existing # required
  /\ Allowed(existing) = Allowed(required)
  /\ result.Matched # <<>>
  /\ \E a \in Range(result.Matched) : HasStarSuffix(a)

\* C14: when the required policy carries no action, Check against any
\* non-empty granted set returns an empty Missing list and an Excessive list
\* that contains every granted action.
C14_NothingRequired ==
  (result.called /\ Allowed(required) = {} /\ Allowed(existing) # {}) =>
    /\ result.Missing = <<>>
    /\ Range(result.Excessive) = Allowed(existing)

C14_Witness ==
  /\ result.called
  /\ required = <<>>
  /\ Len(result.Excessive) = 2
  /\ \E a \in Range(result.Excessive) : HasStarSuffix(a)
  /\ result.Matched = <<>>

\* a list of strings in strictly ascending lexicographic order
Ascending(q) == \A i, j \in DOMAIN q : i < j => LexLess(q[i], q[j])

\* C15: for any two input policies, with actions repeated within and across
\* statements, each of Missing, Excessive and Matched is in ascending
\* lexicographic order and contains no action twice.
C15_SortedNoDuplicates ==
  result.called =>
    /\ Ascending(result.Missing) /\ NoDup(result.Missing)
    /\ Ascending(result.Excessive) /\ NoDup(result.Excessive)
    /\ Ascending(result.Matched) /\ NoDup(result.Matched)

C15_Witness ==
  /\ result.called
  /\ Len(existing) = 2 /\ Len(required) = 2
  /\ Len(existing[1].Action) = 3 /\ LexLess(existing[1].Action[2], existing[1].Action[1])
  /\ Len(required[1].Action) = 3 /\ LexLess(required[1].Action[2], required[1].Action[1])
  /\ Len(result.Excessive) = 2
  /\ Len(result.Missing) = 2

(* ---------------------------------------------------------------------- *)
(* Loading the existing policy: from a JSON document (ParsePolicy) or from *)
(* the policy documents declared in the configuration                      *)
(* (FromProviderPolicies), followed by GetAllActions as Check does.        *)
(* ---------------------------------------------------------------------- *)
Effects == {"Allow", "allow", "ALLOW", "Deny", "deny"}

\* strings.ToLower on the effect strings
ToLower(e) ==
  CASE e \in {"Allow", "allow", "ALLOW"} -> "allow"
    [] e \in {"Deny", "deny"} -> "deny"

\* strings.EqualFold
EqualFold(a, b) == ToLower(a) = ToLower(b)

\* the "Action" member of a JSON statement: one string or an array of strings
JsonActions ==
  [kind : {"string"}, val : ActionUniverse]
    \cup {[kind |-> "array", val |-> SetToSeq(S)] : S \in ActionSets}

\* StringList.UnmarshalJSON
UnmarshalStringList(j) == IF j.kind = "string" THEN <<j.val>> ELSE j.val

\* a JSON document: one statement, or two of which the second has one action
JsonStmts == [Effect : Effects, Action : JsonActions]
JsonDocs ==
  {<<st>> : st \in JsonStmts}
    \cup {<<st, [Effect |-> e, Action |-> [kind |-> "string", val |-> a]]>> :
            st \in JsonStmts, e \in Effects, a \in ActionUniverse}

\* the policy documents of a configuration: one document of one statement,
\* or two documents of which the second has one action
ProviderStmts == {[Effect |-> e, Actions |-> SetToSeq(S)] : e \in Effects, S \in ActionSets}
ProviderDocs ==
  {<<[Statements |-> <<st>>]>> : st \in ProviderStmts}
    \cup {<<[Statements |-> <<st>>], [Statements |-> <<[Effect |-> e, Actions |-> <<a>>]>>]>> :
            st \in ProviderStmts, e \in Effects, a \in ActionUniverse}

\* json.Unmarshal into IAMPolicy
ParsePolicy(d) ==
  [i \in DOMAIN d |-> [Effect |-> d[i].Effect, Action |-> UnmarshalStringList(d[i].Action)]]

FromProviderPolicies(pols) ==
  LET stmts == UNION {Range(pols[i].Statements) : i \in DOMAIN pols}
      actionSet == UNION {Range(st.Actions) :
                            st \in {q \in stmts : EqualFold(q.Effect, "Allow")}}
  IN  <<[Effect |-> "Allow", Action |-> SortStrings(SetToSeq(actionSet))]>>

LoadInit ==
  /\ origin \in {"json", "terraform"}
  /\ doc \in (IF origin = "json" THEN JsonDocs ELSE ProviderDocs)
  /\ granted = NoGrant
  /\ WalkIdle
  /\ CheckIdle
  /\ MatchIdle
  /\ ResolveIdle
  /\ RenderIdle
  /\ BlockIdle

\* --policy: the existing policy is read from a JSON file
LoadJSON ==
  /\ origin = "json" /\ ~granted.called
  /\ existing' = ParsePolicy(doc)
  /\ granted' = [called |-> TRUE, value |-> GetAllActions(ParsePolicy(doc))]
  /\ UNCHANGED <<origin, doc, required, result, compliant>>
  /\ UNCHANGED <<fsVars, walkVars, matchVars, rslVars, genVars, blkVars>>

\* the existing policy is built from the documents of the configuration
LoadTerraform ==
  /\ origin = "terraform" /\ ~granted.called
  /\ existing' = FromProviderPolicies(doc)
  /\ granted' = [called |-> TRUE, value |-> GetAllActions(FromProviderPolicies(doc))]
  /\ UNCHANGED <<origin, doc, required, result, compliant>>
  /\ UNCHANGED <<fsVars, walkVars, matchVars, rslVars, genVars, blkVars>>

LoadNext == LoadJSON \/ LoadTerraform

LoadSpec == LoadInit /\ [][LoadNext]_vars

\* the actions of the statements of the document whose effect is allow in
\* any letter case
AllowFolded ==
  IF origin = "json"
    THEN UNION {Range(UnmarshalStringList(doc[i].Action)) :
                  i \in {j \in DOMAIN doc : ToLower(doc[j].Effect) = "allow"}}
    ELSE UNION {Range(doc[i].Statements[1].Actions) :
                  i \in {j \in DOMAIN doc : ToLower(doc[j].Statements[1].Effect) = "allow"}}

\* C16: a statement contributes its actions to the granted-action set that
\* Check consumes if and only if its effect is allow, compared without regard
\* to letter case, for a policy loaded from JSON as for one derived from the
\* declared policy documents; a deny statement neither adds nor removes.
C16_AllowAnyCase ==
  granted.called => Range(granted.value) = AllowFolded

(* ---------------------------------------------------------------------- *)
(* The permission resolver (mapping.Resolver), the schema store and the    *)
(* schema fetcher (internal/schema).                                       *)
(*                                                                         *)
(* Three resource kinds stand for the three rows of the tables: a kind     *)
(* with a canonical type name and a catalog entry, a kind with a canonical *)
(* type name and no catalog entry, and a kind with neither.                *)
(* ---------------------------------------------------------------------- *)
Kinds == {"aws_s3_bucket", "aws_key_pair", "google_storage_bucket"}

\* schema.TerraformToCfnType
TerraformToCfnType(k) ==
  CASE k = "aws_s3_bucket" -> "AWS::S3::Bucket"
    [] k = "aws_key_pair" -> "AWS::EC2::KeyPair"
    [] OTHER -> ""

CfnTypes == {TerraformToCfnType(k) : k \in Kinds} \ {""}

\* the type name of a registry document that does not name the requested type
OtherTypeName == "AWS::Other::Type"

\* the cache file of a type: its name in lower case, "::" replaced by "-"
CacheFile(t) ==
  CASE t = "AWS::S3::Bucket" -> "aws-s3-bucket.json"
    [] t = "AWS::EC2::KeyPair" -> "aws-ec2-keypair.json"
    [] t = OtherTypeName -> "aws-other-type.json"

\* the static catalog
fallbackMappings ==
  [k \in {"aws_s3_bucket", "aws_s3_bucket_versioning"} |->
     IF k = "aws_s3_bucket"
       THEN [Create |-> << <<"s", "P", "O">> >>,
             Read   |-> << <<"s", "G", "*">>, <<"s", "G", "O">> >>,
             Update |-> << <<"s", "P", "O">> >>,
             Delete |-> << <<"s", "*", "O">> >>]
       ELSE [Create |-> << <<"s", "P", "V">> >>,
             Read   |-> << <<"s", "G", "V">> >>,
             Update |-> << <<"s", "P", "V">> >>,
             Delete |-> <<>>]]

\* the schema the CloudFormation registry holds for a type
Registry(t) ==
  IF t = "AWS::S3::Bucket"
    THEN [TypeName |-> t,
          Handlers |-> [create |-> << <<"s", "P", "O">>, <<"s", "G", "O">> >>,
                        read   |-> << <<"s", "G", "O">> >>,
                        update |-> << <<"s", "P", "O">> >>,
                        delete |-> <<>>,
                        list   |-> << <<"s", "G", "*">> >>]]
    ELSE [TypeName |-> t,
          Handlers |-> [create |-> << <<"e", "R">> >>,
                        read   |-> << <<"e", "*">> >>,
                        update |-> <<>>,
                        delete |-> <<>>,
                        list   |-> << <<"e", "*">> >>]]

NoSchema == [TypeName |-> "", Handlers |-> [create |-> <<>>, read |-> <<>>, update |-> <<>>,
                                            delete |-> <<>>, list |-> <<>>]]

\* Go maps
EmptyMap == [x \in {} |-> {}]
Put(m, k, v) == [x \in DOMAIN m \cup {k} |-> IF x = k THEN v ELSE m[x]]

\* the first occurrences, in order (the `seen` maps of extractPermissions
\* and GetActionsForResource)
DedupNothing(q) == q

RECURSIVE Dedup(_)
Dedup(q) ==
  IF q = <<>> THEN <<>>
  ELSE LET rest == Dedup(SubSeq(q, 1, Len(q) - 1))
       IN  IF q[Len(q)] \in Range(rest) THEN rest ELSE Append(rest, q[Len(q)])

\* Permissions.All of extractPermissions
extractPermissions(sch) ==
  [All |-> Dedup(sch.Handlers.create \o sch.Handlers.read \o sch.Handlers.update
                   \o sch.Handlers.delete \o sch.Handlers.list)]

\* the package-level GetActionsForResource: the static catalog only
GetActionsForResource(k) ==
  IF k \notin DOMAIN fallbackMappings THEN <<>>
  ELSE LET m == fallbackMappings[k]
       IN  Dedup(m.Create \o m.Read \o m.Update \o m.Delete)

\* Store.loadFromCache
loadFromCache(dsk, cfg, t) ==
  IF cfg.cacheDir = "" \/ CacheFile(t) \notin DOMAIN dsk
    THEN [err |-> TRUE, schema |-> NoSchema]
    ELSE [err |-> FALSE, schema |-> dsk[CacheFile(t)]]

\* Store.GetPermissions: `mem` is Store.schemas after the call, `from` tells
\* where the schema was found
GetPermissionsCacheOnly(mem, dsk, cfg, t) ==
  LET c == loadFromCache(dsk, cfg, t)
  IN  IF c.err THEN [err |-> TRUE, perms |-> [All |-> <<>>], mem |-> mem, from |-> "none"]
      ELSE [err |-> FALSE, perms |-> extractPermissions(c.schema),
            mem |-> Put(mem, t, c.schema), from |-> "cache"]

GetPermissions(mem, dsk, cfg, t) ==
  IF t \in DOMAIN mem
    THEN [err |-> FALSE, perms |-> extractPermissions(mem[t]), mem |-> mem, from |-> "memory"]
    ELSE LET c == loadFromCache(dsk, cfg, t)
         IN  IF c.err
               THEN [err |-> TRUE, perms |-> [All |-> <<>>], mem |-> mem, from |-> "none"]
               ELSE [err |-> FALSE, perms |-> extractPermissions(c.schema),
                     mem |-> Put(mem, t, c.schema), from |-> "cache"]

\* Store.LoadSchema: the schema is filed under the type name it carries
LoadSchemaForgetting(mem, sch) == Put(EmptyMap, sch.TypeName, sch)

LoadSchema(mem, sch) == Put(mem, sch.TypeName, sch)

\* Store.SaveToCache; `writable` is whether MkdirAll and WriteFile succeed
SaveToCacheNever(dsk, cfg, sch, writable) == dsk

SaveToCache(dsk, cfg, sch, writable) ==
  IF cfg.cacheDir = "" \/ ~writable THEN dsk
  ELSE Put(dsk, CacheFile(sch.TypeName), sch)

\* what Fetcher.FetchSchema can get from `aws cloudformation describe-type`:
\* an error, the schema of the requested type, or a document that carries
\* another type name (FetchSchema does not compare it with cfnType)
FetchReplies(t) ==
  {[err |-> TRUE, schema |-> NoSchema],
   [err |-> FALSE, schema |-> Registry(t)],
   [err |-> FALSE, schema |-> [Registry(t) EXCEPT !.TypeName = OtherTypeName]]}

\* Resolver.GetActionsForResourceType(kind): what it returns and what it
\* leaves in the store.  cli is IsAWSCLIAvailable(), reply what FetchSchema
\* gets, writable whether SaveToCache can write.
Fallback(k, mem, f) ==
  [actions |-> GetActionsForResource(k), tier |-> "fallback", fetch |-> f,
   mem |-> mem, dsk |-> disk]

Resolution(k, cli, reply, writable) ==
  LET cfnType == TerraformToCfnType(k)
  IN  IF ~(resolver.useSchema /\ cfnType # "") THEN Fallback(k, schemas, "none")
      ELSE LET g == GetPermissions(schemas, disk, resolver, cfnType)
           IN  IF ~g.err
                 THEN [actions |-> g.perms.All, tier |-> g.from, fetch |-> "none",
                       mem |-> g.mem, dsk |-> disk]
               ELSE IF ~cli THEN Fallback(k, schemas, "unavailable")
               ELSE IF reply.err THEN Fallback(k, schemas, "failed")
               ELSE LET mem1 == LoadSchema(schemas, reply.schema)
                        g2 == GetPermissions(mem1, disk, resolver, cfnType)
                        dsk2 == SaveToCache(disk, resolver, reply.schema, writable)
                    IN  IF ~g2.err
                          THEN [actions |-> g2.perms.All, tier |-> "fetch",
                                fetch |-> IF resolver.cacheDir # "" /\ writable
                                            THEN "saved" ELSE "filed",
                                mem |-> g2.mem, dsk |-> dsk2]
                          ELSE Fallback(k, mem1, "misfiled")

NoSeen == [tier |-> "none", actions |-> <<>>]

ResolveInit ==
  /\ resolver \in {[useSchema |-> FALSE, cacheDir |-> ""],
                   [useSchema |-> TRUE, cacheDir |-> ""],
                   [useSchema |-> TRUE, cacheDir |-> "cache"]}
  /\ schemas = EmptyMap
  /\ disk \in (IF resolver.cacheDir # ""
                 THEN {[f \in {CacheFile(t) : t \in S} |->
                          Registry(CHOOSE t \in S : CacheFile(t) = f)] : S \in SUBSET CfnTypes}
                 ELSE {EmptyMap})
  /\ run = 1
  /\ lastCall = NoCall
  /\ seen = [k \in Kinds |-> NoSeen]
  /\ fetchHist = NoFetches
  /\ generated = NoPolicy
  /\ RenderIdle
  /\ BlockIdle
  /\ WalkIdle
  /\ CheckIdle
  /\ MatchIdle
  /\ LoadIdle

\* what a resolution of type t can meet outside the process: no AWS CLI; a
\* CLI and one of the replies, and after a schema came back a cache directory
\* that can or cannot be written
Environments(t) ==
  {[cli |-> FALSE, reply |-> [err |-> TRUE, schema |-> NoSchema], writable |-> FALSE]}
    \cup UNION {{[cli |-> TRUE, reply |-> rp, writable |-> w] :
                   w \in IF rp.err THEN {FALSE} ELSE BOOLEAN} : rp \in FetchReplies(t)}

\* a call of Resolver.GetActionsForResourceType
GetActionsForResourceType ==
  \E k \in Kinds :
    \E env \in Environments(IF TerraformToCfnType(k) = ""
                               THEN OtherTypeName ELSE TerraformToCfnType(k)) :
      LET r == Resolution(k, env.cli, env.reply, env.writable)
          t == TerraformToCfnType(k)
          ok == r.fetch \in {"saved", "filed", "misfiled"}
          filed == r.fetch \in {"saved", "filed"}
      IN  /\ run > 0
          /\ schemas' = r.mem
          /\ disk' = r.dsk
          /\ lastCall' = [kind |-> k, tier |-> r.tier, fetch |-> r.fetch, actions |-> r.actions,
                          again |-> seen[k].tier]
          /\ seen' = [seen EXCEPT ![k] = [tier |-> r.tier, actions |-> r.actions]]
          /\ fetchHist' =
               [fetched |-> fetchHist.fetched \cup (IF ok THEN {t} ELSE {}),
                fetchedRun |-> fetchHist.fetchedRun \cup (IF ok THEN {t} ELSE {}),
                filedRun |-> fetchHist.filedRun \cup (IF filed THEN {t} ELSE {}),
                saved |-> fetchHist.saved \cup (IF r.fetch = "saved" THEN {t} ELSE {})]
          /\ generated' = NoPolicy
          /\ UNCHANGED <<resolver, run>>
          /\ UNCHANGED nonRslVars

\* the command ends and a later one starts with the same cache directory:
\* a new store, empty in memory
NewRun ==
  /\ run > 0 /\ run < MaxRuns
  /\ run' = run + 1
  /\ schemas' = EmptyMap
  /\ lastCall' = NoCall
  /\ seen' = [k \in Kinds |-> NoSeen]
  /\ fetchHist' = [fetchHist EXCEPT !.fetchedRun = {}, !.filedRun = {}]
  /\ generated' = NoPolicy
  /\ UNCHANGED <<resolver, disk>>
  /\ UNCHANGED nonRslVars

\* a kind or a resource name as the string of its characters
Letters(w) ==
  CASE w = "aws_s3_bucket" ->
         <<"a", "w", "s", "_", "s", "3", "_", "b", "u", "c", "k", "e", "t">>
    [] w = "aws_s3_bucket_versioning" ->
         <<"a", "w", "s", "_", "s", "3", "_", "b", "u", "c", "k", "e", "t", "_", "v",
         "e", "r", "s", "i", "o", "n", "i", "n", "g">>
    [] w = "aws_key_pair" ->
         <<"a", "w", "s", "_", "k", "e", "y", "_", "p", "a", "i", "r">>
    [] w = "google_storage_bucket" ->
         <<"g", "o", "o", "g", "l", "e", "_", "s", "t", "o", "r", "a", "g", "e", "_",
         "b", "u", "c", "k", "e", "t">>
    [] w = "main" -> <<"m", "a", "i", "n">>
    [] w = "Main" -> <<"M", "a", "i", "n">>
    [] w = "log_store" -> <<"l", "o", "g", "_", "s", "t", "o", "r", "e">>
    [] w = "versioning_main" ->
         <<"v", "e", "r", "s", "i", "o", "n", "i", "n", "g", "_", "m", "a", "i", "n">>

\* unicode.ToUpper
ToUpper(c) ==
  LET lower == <<"a", "b", "c", "d", "e", "f", "g", "h", "i", "j", "k", "l", "m",
                 "n", "o", "p", "q", "r", "s", "t", "u", "v", "w", "x", "y", "z">>
      upper == <<"A", "B", "C", "D", "E", "F", "G", "H", "I", "J", "K", "L", "M",
                 "N", "O", "P", "Q", "R", "S", "T", "U", "V", "W", "X", "Y", "Z">>
  IN  IF \E i \in 1..26 : lower[i] = c
        THEN upper[CHOOSE i \in 1..26 : lower[i] = c] ELSE c

\* strings.Split(cs, "_"): the parts between the underscores, empty ones too
RECURSIVE Split(_)
Split(cs) ==
  IF \A i \in 1..Len(cs) : cs[i] # "_" THEN <<cs>>
  ELSE LET i == CHOOSE n \in 1..Len(cs) : cs[n] = "_" /\ \A m \in 1..(n - 1) : cs[m] # "_"
       IN  <<SubSeq(cs, 1, i - 1)>> \o Split(SubSeq(cs, i + 1, Len(cs)))

\* capitalize: the first letter in upper case
capitalize(part) ==
  IF part = <<>> THEN part ELSE <<ToUpper(part[1])>> \o Tail(part)

\* strings.Join(parts, "") after capitalize on every part
RECURSIVE JoinCapitalized(_)
JoinCapitalized(parts) ==
  IF parts = <<>> THEN <<>>
  ELSE capitalize(Head(parts)) \o JoinCapitalized(Tail(parts))

\* Generator.generateSid: the capitalized parts of kind and name, joined
generateSid(resourceType, resourceName) ==
  JoinCapitalized(Split(Letters(resourceType)))
    \o JoinCapitalized(Split(Letters(resourceName)))

\* mapping.ARNPatterns: a template is the sequence of its literal pieces and
\* placeholders; a kind without an entry has no template
ARNPatterns ==
  [k \in {"aws_s3_bucket", "aws_s3_bucket_versioning", "aws_lambda_function",
           "aws_kms_key"} |->
     CASE k = "aws_s3_bucket_versioning" ->
            [Pattern |-> <<"arn:aws:s3:::", "{bucket}">>,
             ResourceAttribute |-> "bucket",
             ChildPatterns |-> <<>>]
       [] k = "aws_s3_bucket" ->
            [Pattern |-> <<"arn:aws:s3:::", "{bucket}">>,
             ResourceAttribute |-> "bucket",
             ChildPatterns |-> << <<"arn:aws:s3:::", "{bucket}", "/*">> >>]
       [] k = "aws_lambda_function" ->
            [Pattern |-> <<"arn:aws:lambda:", "{region}", ":", "{account}", ":function:",
                           "{function_name}">>,
             ResourceAttribute |-> "function_name",
             ChildPatterns |-> <<>>]
       [] k = "aws_kms_key" ->
            [Pattern |-> <<"arn:aws:kms:", "{region}", ":", "{account}", ":key/*">>,
             ResourceAttribute |-> "",
             ChildPatterns |-> <<>>]]

\* "{" + attrName + "}"
Placeholder(attrName) ==
  CASE attrName = "bucket" -> "{bucket}"
    [] attrName = "function_name" -> "{function_name}"
    [] OTHER -> "{}"

\* strings.Contains, strings.Index (-1 when absent) and strings.ReplaceAll on
\* a string held as a sequence of pieces
Contains(str, piece) == piece \in Range(str)

IndexOf(str, piece) ==
  IF piece \in Range(str)
    THEN (CHOOSE i \in DOMAIN str :
            str[i] = piece /\ \A j \in 1..(i - 1) : str[j] # piece) - 1
    ELSE 0 - 1

RECURSIVE ReplaceAll(_, _, _)
ReplaceAll(str, piece, with) ==
  IF str = <<>> THEN <<>>
  ELSE (IF Head(str) = piece THEN with ELSE <<Head(str)>>)
         \o ReplaceAll(Tail(str), piece, with)

\* fmt.Sprintf("%+v", attrVal): "{Literal:... Reference:...}" for the
\* AttributeValue struct, the bare value for anything else
Sprintf(attrVal) ==
  IF attrVal.shape = "struct"
    THEN <<"{", "Literal:">> \o attrVal.Literal \o <<" ", "Reference:">>
           \o attrVal.Reference \o <<"}">>
    ELSE <<"5">>

\* "${" + ref + "}"
Deferred(ref) == <<"${">> \o ref \o <<"}">>

\* Generator.replaceAttributeValue: the literal is recovered from the %+v
\* rendering of the value, up to its first space
replaceAttributeValue(arn, attrName, attrVal) ==
  LET valStr == Sprintf(attrVal)
      litRest == SubSeq(valStr, IndexOf(valStr, "Literal:") + 2, Len(valStr))
      litSpace == IndexOf(litRest, " ")
      litEnd == IF litSpace = 0 - 1 THEN IndexOf(litRest, "}") ELSE litSpace
      refRest == SubSeq(valStr, IndexOf(valStr, "Reference:") + 2, Len(valStr))
      refEnd == IndexOf(refRest, "}")
  IN  IF Contains(valStr, "Literal:") /\ litEnd > 0
        THEN ReplaceAll(arn, Placeholder(attrName), SubSeq(litRest, 1, litEnd))
      ELSE IF Contains(valStr, "Reference:") /\ refEnd > 0
        THEN ReplaceAll(arn, Placeholder(attrName), Deferred(SubSeq(refRest, 1, refEnd)))
      ELSE arn

\* Generator.buildARN: the {account} and {region} placeholders
AccountAndRegionAlways(opts, pattern) ==
  ReplaceAll(ReplaceAll(pattern, "{account}",
                        IF opts.AccountRef # <<>> THEN opts.AccountRef ELSE <<"*">>),
             "{region}", IF opts.RegionRef # <<>> THEN opts.RegionRef ELSE <<"*">>)

AccountAndRegion(opts, pattern) ==
  LET account == IF opts.OutputFormat = "terraform" /\ opts.AccountRef # <<>>
                   THEN opts.AccountRef ELSE <<"*">>
      region == IF opts.OutputFormat = "terraform" /\ opts.RegionRef # <<>>
                  THEN opts.RegionRef ELSE <<"*">>
  IN  ReplaceAll(ReplaceAll(pattern, "{account}", account), "{region}", region)

\* Generator.buildARN
buildARN(opts, pattern, attrName, res) ==
  LET arn == AccountAndRegion(opts, pattern)
      ph == Placeholder(attrName)
  IN  IF attrName # "" /\ Contains(arn, ph)
        THEN LET replaced ==
                   IF attrName \notin DOMAIN res.Attributes THEN arn
                   ELSE LET v == res.Attributes[attrName]
                        IN  CASE v.shape = "getter" ->
                                   IF v.Literal # <<>> THEN ReplaceAll(arn, ph, v.Literal)
                                   ELSE arn
                              [] v.shape = "map" ->
                                   IF v.Literal # <<>> THEN ReplaceAll(arn, ph, v.Literal)
                                   ELSE IF v.Reference # <<>>
                                     THEN ReplaceAll(arn, ph, Deferred(v.Reference))
                                   ELSE arn
                              [] OTHER -> replaceAttributeValue(arn, attrName, v)
             IN  IF Contains(replaced, ph) THEN ReplaceAll(replaced, ph, <<"*">>)
                 ELSE replaced
        ELSE arn

\* Generator.buildARNsForResource
buildARNsForResourcePrimaryOnly(opts, res) ==
  IF res.Type \notin DOMAIN ARNPatterns THEN << <<"*">> >>
  ELSE <<buildARN(opts, ARNPatterns[res.Type].Pattern,
                  ARNPatterns[res.Type].ResourceAttribute, res)>>

buildARNsForResource(opts, res) ==
  IF res.Type \notin DOMAIN ARNPatterns THEN << <<"*">> >>
  ELSE LET p == ARNPatterns[res.Type]
       IN  <<buildARN(opts, p.Pattern, p.ResourceAttribute, res)>>
             \o [i \in 1..Len(p.ChildPatterns) |->
                   buildARN(opts, p.ChildPatterns[i], p.ResourceAttribute, res)]

\* the options of policy.New()
DefaultOptions == [OutputFormat |-> "terraform", AccountRef |-> <<>>, RegionRef |-> <<>>]

\* the statements Generator.Generate appends for the first n rs
RECURSIVE GenerateStatements(_, _)
GenerateStatements(rs, n) ==
  IF n = 0 THEN <<>>
  ELSE LET res == rs[n]
           actions == GetActionsForResource(res.Type)
           before == GenerateStatements(rs, n - 1)
       IN  IF Len(actions) = 0 THEN before
           ELSE Append(before, [Sid |-> generateSid(res.Type, res.Name),
                                Effect |-> "Allow",
                                Action |-> SortStrings(actions),
                                Resource |-> buildARNsForResource(DefaultOptions, res)])

\* Generator.Generate: the policy and the error it returns
GenerateEveryResource(rs) ==
  [called |-> TRUE, err |-> FALSE, resources |-> rs,
   Statement |-> [i \in DOMAIN rs |->
                    [Sid |-> generateSid(rs[i].Type, rs[i].Name),
                     Effect |-> "Allow",
                     Action |-> SortStrings(GetActionsForResource(rs[i].Type)),
                     Resource |-> buildARNsForResource(DefaultOptions, rs[i])]]]

Generate(rs) ==
  [called |-> TRUE, err |-> FALSE, resources |-> rs,
   Statement |-> GenerateStatements(rs, Len(rs))]

\* the generate command, for a bucket and a resource of the kind last resolved
DoGenerate ==
  /\ lastCall.kind # ""
  /\ generated' = Generate(<<[Type |-> "aws_s3_bucket", Name |-> "main",
                               Attributes |-> EmptyMap],
                             [Type |-> lastCall.kind, Name |-> "log_store",
                               Attributes |-> EmptyMap]>>)
  /\ UNCHANGED <<resolver, schemas, disk, run, lastCall, seen, fetchHist>>
  /\ UNCHANGED nonRslVars

ResolveNext == GetActionsForResourceType \/ NewRun \/ DoGenerate

ResolveSpec == ResolveInit /\ [][ResolveNext]_vars

\* the store holds the schema of type t: in memory or in a readable cache file
StoreHolds(mem, dsk, cfg, t) ==
  t \in DOMAIN mem \/ (cfg.cacheDir # "" /\ CacheFile(t) \in DOMAIN dsk)

\* the schema the store holds for t, memory first
HeldSchema(mem, dsk, t) == IF t \in DOMAIN mem THEN mem[t] ELSE dsk[CacheFile(t)]

\* C17 as stated: the static catalog's action set is returned only when the
\* kind has no canonical type name, or the store lookup missed and the
\* on-demand fetch was unavailable or failed; and a resolution that finds the
\* schema in the store returns the schema's action set, not the catalog's.
C17_CatalogOnlyAfterMissAndFetch ==
  lastCall.tier = "fallback" =>
    \/ TerraformToCfnType(lastCall.kind) = ""
    \/ lastCall.fetch \in {"unavailable", "failed"}

\* C17, amended: the static catalog's action set is returned only when the
\* resolver has no schema store, or the kind has no canonical type name, or
\* the store lookup missed and the on-demand fetch was unavailable, failed, or
\* delivered a document the store filed under another type name; what is
\* returned then is the catalog's set.  A resolver with a store that holds
\* the canonical type's schema returns the schema's action set without a
\* fetch and without the catalog.
C17_CatalogOnlyWithoutSchema ==
  /\ [](lastCall.tier = "fallback" =>
          /\ \/ ~resolver.useSchema
             \/ TerraformToCfnType(lastCall.kind) = ""
             \/ lastCall.fetch \in {"unavailable", "failed", "misfiled"}
          /\ lastCall.actions = GetActionsForResource(lastCall.kind))
  /\ [][LET t == TerraformToCfnType(lastCall'.kind)
        IN  (lastCall'.kind # "" /\ ~generated'.called /\ resolver.useSchema /\ t # ""
               /\ StoreHolds(schemas, disk, resolver, t)) =>
              /\ lastCall'.tier \in {"memory", "cache"}
              /\ lastCall'.fetch = "none"
              /\ lastCall'.actions = extractPermissions(HeldSchema(schemas, disk, t)).All]_vars

\* the catalog's set returned for a kind with a canonical type name after
\* the store missed and the fetch failed
C17_Witness ==
  /\ lastCall.tier = "fallback"
  /\ lastCall.fetch = "failed"
  /\ TerraformToCfnType(lastCall.kind) # ""
  /\ lastCall.actions # <<>>

\* C18: resolution never fails.  A resolution that ends in the static catalog
\* for a kind the catalog does not know returns the empty action set, and
\* Generate then returns no error and no statement for a resource of that
\* kind, while it still emits the statements of the other resources.
C18_UnknownKindResolvesEmpty ==
  /\ lastCall.tier \in {"none", "memory", "cache", "fetch", "fallback"}
  /\ (lastCall.tier = "fallback" /\ lastCall.kind \notin DOMAIN fallbackMappings)
       => lastCall.actions = <<>>
  /\ generated.called =>
       /\ ~generated.err
       /\ \A i \in DOMAIN generated.resources :
            LET res == generated.resources[i]
            IN  (\E j \in DOMAIN generated.Statement :
                   generated.Statement[j].Sid = generateSid(res.Type, res.Name))
                  <=> res.Type \in DOMAIN fallbackMappings

\* a kind with a canonical type name that neither the store nor the catalog
\* knows resolved to nothing, and a policy generated for it and for a known
\* kind holds one statement
C18_Witness ==
  /\ lastCall.tier = "fallback"
  /\ lastCall.fetch = "failed"
  /\ lastCall.kind \notin DOMAIN fallbackMappings
  /\ lastCall.actions = <<>>
  /\ generated.called
  /\ Len(generated.Statement) = 1

\* the step is a resolution that called FetchSchema
Fetching == ~generated'.called /\ lastCall'.fetch \in {"failed", "saved", "filed", "misfiled"}

\* the step is a resolution of a kind whose canonical type is in T
ResolvingOneOf(T) ==
  /\ lastCall'.kind # ""
  /\ ~generated'.called
  /\ TerraformToCfnType(lastCall'.kind) \in T

\* C19 as stated: after a successful on-demand fetch the schema is in the
\* store under the requested canonical type name, in memory for the rest of
\* the run and in the cache directory from then on.
C19_FetchedIsStored ==
  /\ fetchHist.fetchedRun \subseteq DOMAIN schemas
  /\ \A t \in fetchHist.fetched : CacheFile(t) \in DOMAIN disk

\* C19, amended: a fetched schema that carries the requested type name is in
\* memory under that name for the rest of the run, and it is in the cache
\* directory when the store has one and the write succeeded; a resolution of
\* a kind whose schema is so held, in the same run or in a later one, finds
\* it and performs no fetch, and no resolution fetches a schema the store
\* holds.  A fetched schema that carries another type name is filed under
\* that name only and leaves the requested type unheld.
C19_FiledSchemaIsNotFetchedAgain ==
  /\ [](/\ fetchHist.filedRun \subseteq DOMAIN schemas
        /\ \A t \in fetchHist.saved :
             resolver.cacheDir # "" /\ CacheFile(t) \in DOMAIN disk)
  /\ [][/\ ResolvingOneOf(fetchHist.filedRun \cup fetchHist.saved) =>
             lastCall'.fetch = "none" /\ lastCall'.tier \in {"memory", "cache"}
        /\ Fetching =>
             ~StoreHolds(schemas, disk, resolver, TerraformToCfnType(lastCall'.kind))
        /\ (~generated'.called /\ lastCall'.fetch = "misfiled") =>
             /\ OtherTypeName \in DOMAIN schemas'
             /\ ~StoreHolds(schemas', disk', resolver, TerraformToCfnType(lastCall'.kind))]_vars

\* in a later run, a kind whose schema an earlier run fetched and saved is
\* resolved from the cache file
C19_Witness ==
  /\ run > 1
  /\ lastCall.tier = "cache"
  /\ lastCall.fetch = "none"
  /\ TerraformToCfnType(lastCall.kind) \in fetchHist.saved \ fetchHist.fetchedRun

\* the step resolves a kind this run has resolved before
ResolvingAgain ==
  /\ lastCall'.kind # ""
  /\ ~generated'.called
  /\ seen[lastCall'.kind].tier # "none"

PhaseLists ==
  IF lastCall.tier = "fallback"
    THEN IF lastCall.kind \in DOMAIN fallbackMappings
           THEN LET m == fallbackMappings[lastCall.kind]
                IN  <<m.Create, m.Read, m.Update, m.Delete>>
           ELSE <<>>
    ELSE LET h == schemas[TerraformToCfnType(lastCall.kind)].Handlers
         IN  <<h.create, h.read, h.update, h.delete, h.list>>

\* C21: the resolved action set is the deduplicated union of the per-phase
\* lists: every action of every phase is in it, nothing else is, and no
\* action appears twice.
C21_PhaseUnionDeduplicated ==
  lastCall.kind # "" =>
    /\ Range(lastCall.actions) = UNION {Range(PhaseLists[i]) : i \in DOMAIN PhaseLists}
    /\ \A i, j \in DOMAIN lastCall.actions :
         lastCall.actions[i] = lastCall.actions[j] => i = j

\* a resolution from a schema whose phases repeat an action
C21_Witness ==
  /\ lastCall.tier \in {"memory", "cache", "fetch"}
  /\ \E i, j \in DOMAIN PhaseLists :
       i # j /\ Range(PhaseLists[i]) \cap Range(PhaseLists[j]) # {}
  /\ Len(lastCall.actions) > 1
(* ---------------------------------------------------------------------- *)
(* Address rendering: buildARNsForResource on one resource.                *)
(* ---------------------------------------------------------------------- *)
MaxLit == 2
LitAlphabet == {"b", " ", "}"}

\* attribute literals, among them the empty one and ones holding a space
Literals == UNION {[1..n -> LitAlphabet] : n \in 0..MaxLit}
References == {<<"var.b">>}

\* what Resource.Attributes can hold for the locator attribute: the
\* AttributeValue struct of the terraform provider, a map with the same
\* keys, a value with a GetLiteral method, or something else
AttrValues ==
  {[shape |-> sh, Literal |-> l, Reference |-> <<>>] :
     sh \in {"struct", "map", "getter"}, l \in Literals}
    \cup {[shape |-> sh, Literal |-> <<>>, Reference |-> r] :
            sh \in {"struct", "map"}, r \in References}
    \cup {[shape |-> "other", Literal |-> <<>>, Reference |-> <<>>]}

RenderKinds == DOMAIN ARNPatterns \cup {"aws_key_pair"}

\* mapping.GetARNAttributes
GetARNAttributes(k) ==
  IF k \in DOMAIN ARNPatterns /\ ARNPatterns[k].ResourceAttribute # ""
    THEN {ARNPatterns[k].ResourceAttribute} ELSE {}

RenderResources ==
  UNION {{[Type |-> k, Name |-> "main", Attributes |-> EmptyMap]}
           \cup {[Type |-> k, Name |-> "main", Attributes |-> [a \in GetARNAttributes(k) |-> v]] :
                   v \in IF GetARNAttributes(k) = {} THEN {} ELSE AttrValues} :
         k \in RenderKinds}

RenderInit ==
  /\ genOptions \in [OutputFormat : {"terraform", "json"},
                     AccountRef : {<<>>, <<"${acct}">>},
                     RegionRef : {<<>>, <<"${reg}">>}]
  /\ argRes \in RenderResources
  /\ arns = NoARNs
  /\ argResources = <<>>
  /\ WalkIdle
  /\ CheckIdle
  /\ MatchIdle
  /\ LoadIdle
  /\ ResolveIdle
  /\ BlockIdle

\* a call of Generator.buildARNsForResource
DoBuildARNs ==
  /\ ~arns.called
  /\ arns' = [called |-> TRUE, value |-> buildARNsForResource(genOptions, argRes)]
  /\ UNCHANGED <<genOptions, argRes, argResources>>
  /\ UNCHANGED nonGenVars

RenderNext == DoBuildARNs

RenderSpec == RenderInit /\ [][RenderNext]_vars

\* the locator attribute value of the resource, absent when it has none
LocatorValue ==
  LET names == GetARNAttributes(argRes.Type) \cap DOMAIN argRes.Attributes
  IN  IF names = {} THEN [shape |-> "absent", Literal |-> <<>>, Reference |-> <<>>]
      ELSE argRes.Attributes[CHOOSE a \in names : TRUE]

\* C22: rendering returns at least one address; the single address "*" for a
\* kind with no template; for a kind with a template the primary address
\* first and then one address per child template, each the primary address
\* followed by what the child template adds to the primary one.
C22_AtLeastOneAddress ==
  arns.called =>
    /\ Len(arns.value) >= 1
    /\ \A i \in DOMAIN arns.value : arns.value[i] # <<>>
    /\ argRes.Type \notin DOMAIN ARNPatterns => arns.value = << <<"*">> >>
    /\ argRes.Type \in DOMAIN ARNPatterns =>
         LET p == ARNPatterns[argRes.Type]
         IN  /\ Len(arns.value) = 1 + Len(p.ChildPatterns)
             /\ Head(arns.value[1]) = Head(p.Pattern)
             /\ \A i \in DOMAIN p.ChildPatterns :
                  arns.value[i + 1] =
                    arns.value[1] \o SubSeq(p.ChildPatterns[i], Len(p.Pattern) + 1,
                                            Len(p.ChildPatterns[i]))

\* a bucket with a literal name rendered to its own address and the address
\* of its objects
C22_Witness ==
  /\ arns.called
  /\ Len(arns.value) = 2
  /\ LocatorValue.shape = "struct"
  /\ LocatorValue.Literal = <<"b", "b">>
\* the templates of the kind of the resource, primary first
Templates ==
  IF argRes.Type \in DOMAIN ARNPatterns
    THEN <<ARNPatterns[argRes.Type].Pattern>> \o ARNPatterns[argRes.Type].ChildPatterns
    ELSE <<>>

\* the placeholders a template can hold
Placeholders ==
  {"{account}", "{region}"} \cup {Placeholder(a) : a \in {"bucket", "function_name"}}

\* C23: a locator attribute that holds a symbolic reference is rendered as
\* ${reference} in terraform output mode and as "*" in json output mode, and
\* no rendered address holds a placeholder.
C23_ReferenceByMode ==
  (arns.called /\ LocatorValue.Reference # <<>>) =>
    /\ \A i \in DOMAIN arns.value :
         arns.value[i] =
           ReplaceAll(AccountAndRegion(genOptions, Templates[i]),
                      Placeholder(ARNPatterns[argRes.Type].ResourceAttribute),
                      IF genOptions.OutputFormat = "terraform"
                        THEN Deferred(LocatorValue.Reference) ELSE <<"*">>)
    /\ \A i \in DOMAIN arns.value : Range(arns.value[i]) \cap Placeholders = {}
\* C24: a locator attribute that holds a non-empty literal L is rendered as
\* exactly L in every address; an absent attribute, or one of an unrecognized
\* shape, is rendered as "*".
C24_LiteralUnchanged ==
  (arns.called /\ argRes.Type \in DOMAIN ARNPatterns
     /\ ARNPatterns[argRes.Type].ResourceAttribute # "") =>
    LET ph == Placeholder(ARNPatterns[argRes.Type].ResourceAttribute)
        v == LocatorValue
    IN  /\ v.Literal # <<>> =>
             \A i \in DOMAIN arns.value :
               arns.value[i] = ReplaceAll(AccountAndRegion(genOptions, Templates[i]), ph, v.Literal)
        /\ v.shape \in {"absent", "other"} =>
             \A i \in DOMAIN arns.value :
               arns.value[i] = ReplaceAll(AccountAndRegion(genOptions, Templates[i]), ph, <<"*">>)
MaxBlocks == 2

Lit(s) == [k |-> "lit", s |-> s, es |-> <<>>]
Ref == [k |-> "ref", s |-> "", es |-> <<>>]
Tuple(es) == [k |-> "tuple", s |-> "", es |-> es]
Absent == [k |-> "none", s |-> "", es |-> <<>>]

\* Expr.Value(nil): a reference has no value without an evaluation context,
\* it gives a value of unknown type and an error; a tuple keeps its elements
Value(e) ==
  CASE e.k = "lit" -> [ty |-> "string", s |-> e.s, es |-> <<>>, diags |-> FALSE]
    [] e.k = "tuple" ->
         [ty |-> "tuple", s |-> "",
          es |-> [i \in 1..Len(e.es) |->
                    IF e.es[i][1] = "lit" THEN <<"string", e.es[i][2]>>
                    ELSE <<"dynamic", "">>],
          diags |-> \E i \in 1..Len(e.es) : e.es[i][1] = "ref"]
    [] OTHER -> [ty |-> "dynamic", s |-> "", es |-> <<>>, diags |-> TRUE]

RECURSIVE StringsOf(_)
StringsOf(es) ==
  IF es = <<>> THEN <<>>
  ELSE (IF Head(es)[1] = "string" THEN <<Head(es)[2]>> ELSE <<>>) \o StringsOf(Tail(es))

ctyToStringSlice(val) ==
  IF val.ty = "string" THEN <<val.s>>
  ELSE IF val.ty = "tuple" THEN StringsOf(val.es)
  ELSE <<>>

\* a statement written as an object of a jsonencode argument: every key is
\* read with the errors of its evaluation dropped
parseStatementFromExpr(se) ==
  IF ~se.obj THEN <<>>
  ELSE <<[Effect |-> IF se.Effect.k # "none" /\ Value(se.Effect).ty = "string"
                     THEN Value(se.Effect).s ELSE "Allow",
          Actions |-> IF se.Action.k # "none" THEN ctyToStringSlice(Value(se.Action))
                      ELSE <<>>,
          Resources |-> IF se.Resource.k # "none"
                        THEN ctyToStringSlice(Value(se.Resource)) ELSE <<>>]>>

\* a statement sub-block of a policy document: an attribute whose evaluation
\* has errors is skipped
parseStatement(se) ==
  LET usable(e) == e.k # "none" /\ ~Value(e).diags
  IN [Effect |-> IF usable(se.Effect) /\ Value(se.Effect).ty = "string"
                 THEN Value(se.Effect).s ELSE "Allow",
      Actions |-> IF usable(se.Action) THEN ctyToStringSlice(Value(se.Action)) ELSE <<>>,
      Resources |-> IF usable(se.Resource) THEN ctyToStringSlice(Value(se.Resource))
                    ELSE <<>>]

RECURSIVE StatementsFromExprs(_)
StatementsFromExprs(ses) ==
  IF ses = <<>> THEN <<>>
  ELSE parseStatementFromExpr(Head(ses)) \o StatementsFromExprs(Tail(ses))

NoInline == [ok |-> FALSE, Statements |-> <<>>]

\* the argument of jsonencode, read as written: never an error
parseJsonencodeArg(arg) ==
  [ok |-> TRUE,
   Statements |-> IF arg.object THEN StatementsFromExprs(arg.Statement) ELSE <<>>]

\* a literal policy string: json.Unmarshal, then Action and Resource as a
\* string or as the strings of an array
parseJSONPolicy(jsonStr) ==
  IF ~jsonStr.wellFormed THEN NoInline
  ELSE [ok |-> TRUE,
        Statements |-> [i \in 1..Len(jsonStr.Statement) |->
           [Effect |-> jsonStr.Statement[i].Effect,
            Actions |-> ctyToStringSlice(Value(jsonStr.Statement[i].Action)),
            Resources |-> ctyToStringSlice(Value(jsonStr.Statement[i].Resource))]]]

parseInlinePolicyLiteralOnly(attr) ==
  IF attr.form = "string" THEN parseJSONPolicy(attr.json) ELSE NoInline

\* ok is "err == nil && policy != nil"
parseInlinePolicy(attr) ==
  IF attr.form = "absent" THEN NoInline
  ELSE IF attr.form = "string" THEN parseJSONPolicy(attr.json)
  ELSE IF attr.form = "call" /\ attr.name = "jsonencode" /\ attr.hasArg
    THEN parseJsonencodeArg(attr.arg)
  ELSE NoInline

parseIAMPolicyDocument(block) ==
  [ok |-> TRUE,
   Statements |-> [i \in 1..Len(block.statements) |-> parseStatement(block.statements[i])]]

isIAMPolicyResource(resourceType) ==
  resourceType \in {"aws_iam_policy", "aws_iam_role_policy", "aws_iam_user_policy",
                    "aws_iam_group_policy"}

\* one turn of parseFile's loop, for the block at line i
ParseBlock(res, block, i) ==
  IF Len(block.Labels) < 2 THEN res
  ELSE LET resourceType == block.Labels[1]
           resourceName == block.Labels[2]
           loc == [File |-> "main.tf", Line |-> i]
       IN CASE block.Type = "resource" ->
                 LET policy == parseInlinePolicy(block.policy)
                     withRes == [res EXCEPT !.Resources =
                                   Append(@, [Type |-> resourceType, Name |-> resourceName,
                                              Location |-> loc])]
                 IN IF isIAMPolicyResource(resourceType) /\ policy.ok
                    THEN [withRes EXCEPT !.Policies =
                            Append(@, [Name |-> "", Statements |-> policy.Statements,
                                       Location |-> loc])]
                    ELSE withRes
            [] block.Type = "data" /\ resourceType = "aws_iam_policy_document" ->
                 [res EXCEPT !.Policies =
                    Append(@, [Name |-> resourceName,
                               Statements |-> parseIAMPolicyDocument(block).Statements,
                               Location |-> loc])]
            [] OTHER -> res

RECURSIVE ParseBlocksFrom(_, _, _)
ParseBlocksFrom(res, blocks, i) ==
  IF i > Len(blocks) THEN res
  ELSE ParseBlocksFrom(ParseBlock(res, blocks[i], i), blocks, i + 1)

\* the statements a file may hold, as objects or as sub-blocks
NoArg == [object |-> FALSE, Statement |-> <<>>]
NoJSON == [wellFormed |-> FALSE, Statement |-> <<>>]
StatementExprs ==
  { [obj |-> TRUE, Effect |-> Lit("Allow"), Action |-> Lit("s3:GetObject"),
     Resource |-> Lit("*")],
    [obj |-> TRUE, Effect |-> Lit("Deny"), Action |-> Tuple(<<<<"lit", "s3:PutObject">>>>),
     Resource |-> Ref],
    [obj |-> TRUE, Effect |-> Absent,
     Action |-> Tuple(<<<<"lit", "s3:GetObject">>, <<"ref", "var.more">>>>),
     Resource |-> Lit("*")],
    [obj |-> TRUE, Effect |-> Ref, Action |-> Ref, Resource |-> Absent],
    [obj |-> FALSE, Effect |-> Absent, Action |-> Absent, Resource |-> Absent] }

PolicyAttrs ==
  { [form |-> "absent", json |-> NoJSON, name |-> "", hasArg |-> FALSE, arg |-> NoArg],
    [form |-> "ref", json |-> NoJSON, name |-> "", hasArg |-> FALSE, arg |-> NoArg],
    [form |-> "string", json |-> NoJSON, name |-> "", hasArg |-> FALSE, arg |-> NoArg],
    [form |-> "string",
     json |-> [wellFormed |-> TRUE,
               Statement |-> <<[Effect |-> "Allow",
                                Action |-> Tuple(<<<<"lit", "s3:GetObject">>>>),
                                Resource |-> Lit("*")]>>],
     name |-> "", hasArg |-> FALSE, arg |-> NoArg],
    [form |-> "call", json |-> NoJSON, name |-> "file", hasArg |-> TRUE, arg |-> NoArg],
    [form |-> "call", json |-> NoJSON, name |-> "jsonencode", hasArg |-> TRUE,
     arg |-> NoArg] }
  \cup { [form |-> "call", json |-> NoJSON, name |-> "jsonencode", hasArg |-> TRUE,
          arg |-> [object |-> TRUE, Statement |-> <<se>>]] : se \in StatementExprs }

NoAttr == CHOOSE a \in PolicyAttrs : a.form = "absent"

Blocks ==
  { [Type |-> "resource", Labels |-> <<"aws_iam_role_policy", "deploy">>,
     policy |-> a, statements |-> <<>>] : a \in PolicyAttrs }
  \cup { [Type |-> "resource", Labels |-> <<"aws_s3_bucket", "main">>,
          policy |-> a, statements |-> <<>>] :
            a \in {p \in PolicyAttrs :
                     p.form = "absent" \/ (p.form = "string" /\ p.json.wellFormed)} }
  \cup { [Type |-> "data", Labels |-> <<"aws_iam_policy_document", "doc">>,
          policy |-> NoAttr, statements |-> <<se>>] :
            se \in {s \in StatementExprs : s.obj /\ s.Effect.k # "lit"} }
  \cup { [Type |-> "data", Labels |-> <<"aws_region", "current">>,
          policy |-> NoAttr, statements |-> <<>>],
         [Type |-> "resource", Labels |-> <<"aws_iam_policy">>,
          policy |-> NoAttr, statements |-> <<>>] }

BlockInit ==
  /\ argBlocks \in UNION {[1..n -> Blocks] : n \in 1..MaxBlocks}
  /\ parsed = NoParse
  /\ WalkIdle
  /\ CheckIdle
  /\ MatchIdle
  /\ LoadIdle
  /\ ResolveIdle
  /\ RenderIdle

\* parseFile's loop over the blocks of a file that parsed
DoParseBlocks ==
  /\ ~parsed.called
  /\ parsed' = ParseBlocksFrom([parsed EXCEPT !.called = TRUE], argBlocks, 1)
  /\ UNCHANGED argBlocks
  /\ UNCHANGED nonBlkVars

BlockNext == DoParseBlocks
BlockSpec == BlockInit /\ [][BlockNext]_vars

\* the block is a policy-bearing resource
PolicyBearing(b) ==
  b.Type = "resource" /\ Len(b.Labels) >= 2 /\ isIAMPolicyResource(b.Labels[1])

HasRef(e) == e.k = "ref" \/ (e.k = "tuple" /\ \E j \in 1..Len(e.es) : e.es[j][1] = "ref")

\* the policy attribute depends on a reference: it is one, or it is a call
\* whose argument is one or holds one
DependsOnReference(a) ==
  \/ a.form = "ref"
  \/ /\ a.form = "call"
     /\ \/ ~a.arg.object
        \/ \E j \in 1..Len(a.arg.Statement) :
             LET se == a.arg.Statement[j]
             IN se.obj /\ (HasRef(se.Effect) \/ HasRef(se.Action) \/ HasRef(se.Resource))

\* the policies the block at line i contributed, and its resources
PoliciesOf(i) == SelectSeq(parsed.Policies, LAMBDA p : p.Location.Line = i)
ResourcesOf(i) == SelectSeq(parsed.Resources, LAMBDA r : r.Location.Line = i)

C27_ExitCode ==
  compliant.called =>
    /\ (result.Missing = <<>> /\ result.Excessive = <<>>) => compliant.exit = 0
    /\ result.Missing # <<>> => compliant.exit = 1
    /\ (result.Missing = <<>> /\ result.Excessive # <<>>) => compliant.exit = 2

C27_Witness ==
  /\ compliant.called
  /\ result.Missing # <<>>
  /\ result.Excessive # <<>>
  /\ compliant.exit = 1
(* ---------------------------------------------------------------------- *)
(* The walk in one fixed order: the files of a directory in ReadDir order, *)
(* its module blocks in the order of their names.  It gives the sets of    *)
(* resources and policies one run of parseWithModules returns for the      *)
(* tree; a run whose loop over module.ModuleCalls takes another order is   *)
(* compared with it.                                                       *)
(* ---------------------------------------------------------------------- *)
RECURSIVE FilesInOrder(_, _, _)
FilesInOrder(d, files, st) ==
  IF files = <<>> THEN st
  ELSE FilesInOrder(d, Tail(files),
         [st EXCEPT !.res = @ \cup Range(parseFile(d, Head(files)).res),
                    !.pol = @ \cup Range(parseFile(d, Head(files)).pol)])

RECURSIVE WalkInOrder(_, _)
RECURSIVE CallsInOrder(_, _, _)
CallsInOrder(d, n, st) ==
  IF n > Len(moduleCalls[d]) THEN st
  ELSE LET r == resolveModuleSource(d, moduleCalls[d][n])
       IN CallsInOrder(d, n + 1,
            IF r.err \/ r.modPath = NoPath THEN st ELSE WalkInOrder(r.modPath, st))

WalkInOrder(p, st) ==
  IF ~StatOK(p) \/ (p.kind = "dir" /\ p.dir \in unreadable) \/ ~AbsOK(p) THEN st
  ELSE IF AlreadyVisited(p.dir, st.vis) THEN st
  ELSE LET parsed1 == FilesInOrder(p.dir, ListFiles(p),
                                   [st EXCEPT !.vis = MarkVisited(@, p.dir)])
       IN IF p.kind # "dir" \/ p.dir \in loadErr THEN parsed1
          ELSE CallsInOrder(p.dir, 1, parsed1)

InOrder == WalkInOrder(rootPath, [vis |-> {}, res |-> {}, pol |-> {}])

\* C28: the set of resources and the set of policies Parse returns do not
\* depend on the order in which the module references of a directory are
\* expanded: every run returns the sets of the run that takes them in the
\* order of their names.
C28_OrderIndependent ==
  outcome = "ok" =>
    /\ Range(resources) = InOrder.res
    /\ Range(policies) = InOrder.pol

\* C29, as stated: in the result of one Parse no two entries of Resources
\* have the same kind, logical name and defining file.
C29_UniqueByKindNameFile ==
  \A i, j \in DOMAIN resources :
    (/\ resources[i].Type = resources[j].Type
     /\ resources[i].Name = resources[j].Name
     /\ resources[i].dir = resources[j].dir
     /\ resources[i].file = resources[j].file) => i = j

\* C29, amended: each declaration file is parsed at most once per walk,
\* whether its directory is reached as the root, through a file path or
\* through several module references, so Resources holds each resource block
\* of a file at most once; two entries have the same kind, logical name and
\* defining file only when that file holds two blocks of that kind and name,
\* and they differ in their line.
C29_FileParsedOnce ==
  /\ \A d \in Dirs : expandCount[d] <= 1
  /\ \A i, j \in DOMAIN resources :
       (/\ resources[i].Type = resources[j].Type
        /\ resources[i].Name = resources[j].Name
        /\ resources[i].dir = resources[j].dir
        /\ resources[i].file = resources[j].file
        /\ i # j)
         => /\ <<resources[i].dir, resources[i].file>> \in dupFiles
            /\ resources[i].line # resources[j].line

C29_Witness ==
  /\ outcome = "ok"
  /\ \E d \in Dirs \ {RootDir} : \E f \in FileIdx :
       /\ <<d, f>> \in dupFiles
       /\ reentries[d] > 0
       /\ Count(resources, Res(d, f, 1)) = 1
       /\ Count(resources, Res(d, f, 2)) = 1
       /\ \A g \in FileIdx \ {f} : Count(resources, Res(d, g, 1)) = 1
(* ---------------------------------------------------------------------- *)
(* The generate command on the resources of a parsed tree: resources of    *)
(* several files and modules, handed to Generate in the order Parse        *)
(* returned them.                                                          *)
(* ---------------------------------------------------------------------- *)
MaxResources == 2

GenResources ==
  [Type : {"aws_s3_bucket", "aws_s3_bucket_versioning", "aws_key_pair"},
   Name : {"main", "Main", "versioning_main", "log_store"},
   Attributes : {EmptyMap},
   File : {"modules/a/main.tf", "modules/b/main.tf"}]

GenerateInit ==
  /\ argResources \in
       {rs \in UNION {[1..n -> GenResources] : n \in 1..MaxResources} :
          \A i, j \in DOMAIN rs : rs[i] = rs[j] => i = j}
  /\ genOptions = NoOptions /\ argRes = <<>> /\ arns = NoARNs
  /\ WalkIdle
  /\ CheckIdle
  /\ MatchIdle
  /\ LoadIdle
  /\ ResolveIdle
  /\ BlockIdle

\* runGenerate: the policy of a default Generator for the parsed resources
DoGenerateResources ==
  /\ ~generated.called
  /\ generated' = Generate(argResources)
  /\ UNCHANGED <<resolver, schemas, disk, run, lastCall, seen, fetchHist>>
  /\ UNCHANGED nonRslVars

GenerateNext == DoGenerateResources
GenerateSpec == GenerateInit /\ [][GenerateNext]_vars

\* C30: in a policy produced by Generate the statement ids are unique: the
\* statements of two distinct resources never have the same Sid.
C30_UniqueSids ==
  generated.called =>
    \A i, j \in DOMAIN generated.Statement :
      generated.Statement[i].Sid = generated.Statement[j].Sid => i = j
====
